---- MODULE Spec2Model ----
(***************************************************************************)
(* Authentication back end of portfolio-api: login / refresh / logout,     *)
(* TOTP and e-mail OTP second factors, recovery codes, the account lockout *)
(* tracker and the secret codec.                                           *)
(*                                                                         *)
(* The relational store is a collection of row sets, the cache is a map    *)
(* from keys to (value, expiry) pairs, and the clock advances in ticks.    *)
(* login_attempts and audit_logs are append-only and no handler reads      *)
(* them: the model keeps the rows the last handler appended.               *)
(* Every handler is one action; `result` holds what the last handler       *)
(* returned or threw.                                                      *)
(***************************************************************************)
EXTENDS Integers, Sequences, FiniteSets, TLC

VARIABLES users,            \* user rows joined with their account row
          sessions,         \* session rows
          twoFactorAuths,   \* two_factor_auths rows
          emailOTPs,        \* email_otps rows
          redis,            \* cache: key -> [val, exp]
          loginAttempts,    \* login_attempts rows the last handler appended
          auditLogs,        \* audit_logs rows the last handler appended
          sentMail,         \* the mail last handed to the mailer
          now,              \* the clock, in ticks
          nextId,           \* next row id per table
          codec,            \* state of the secret-codec round trip
          failedLogins,     \* the client's tally of its failed login calls
          checking,         \* the checkLockout call under way, or its outcome
          confirming,       \* verifyTOTPSetup calls between read and write
          verifiedSecrets,  \* <<user, secret>> pairs a setup code verified for
          issuing,          \* generateAndSendOTP calls between delete and create
          registering,      \* register calls between the check and the create
          refreshing,       \* refreshTokens calls under way
          passwordResetTokens, \* password_reset_tokens rows
          consuming,        \* verifyRecoveryCode calls between read and update
          recording,        \* recordFailedAttempt calls between get and set
          result            \* outcome of the last handler

vars == <<users, sessions, twoFactorAuths, emailOTPs, redis, loginAttempts,
          auditLogs, sentMail, now, nextId, codec, failedLogins, checking,
          confirming, verifiedSecrets, issuing, registering,
                 refreshing,
                 passwordResetTokens,
                 consuming,
                 recording, result>>

----------------------------------------------------------------------------
(* Bounds of the model.  Durations are counted in clock ticks. *)

MaxTime == 3
MaxSessionId == 3
MaxOtpId == 2
NumOtpCodes == 2
NumSecrets == 2
NumRecoveryCodes == 3
RecoveryCodeCount == 2

(* Configuration values (src/src/config/env.validation.ts), scaled. *)
AccessExpiresIn == 1
RefreshExpiresIn == 3
SessionLifetime == 2
NumResetTokens == 2
ResetExpiry == 2
OtpExpiry == 2
OtpLockout == 2
MaxOTPAttempts == 2
MaxResendAttempts == 2
MaxAttempts == 2
LockoutTtl == 2

(* Program constants. *)
MaxResetRequests == 3
ResetRateTtl == 900
TotpWindow == 2
SecondsPerMinute == 60

----------------------------------------------------------------------------
(* Input domains. *)

Emails == {"a@x.com", "b@x.com"}
Usernames == {"a", "b"}
Identifiers == Emails \cup Usernames \cup {"zed"}
Passwords == {"pw1", "pw2"}
IpAddresses == {"10.0.0.1"}
UserIds == {"u1", "u2"}

RegisterDtos ==
  { [email |-> "a@x.com", username |-> "a", password |-> "pw1"],
    [email |-> "b@x.com", username |-> "b", password |-> "pw2"] }

----------------------------------------------------------------------------
(* Values. *)

\* argon2.hash / argon2.verify: a hash verifies exactly the value it was made from
Hash(x) == <<"argon2", x>>
Argon2Verify(h, x) == h = Hash(x)

\* a second-factor token as typed by the user
NoToken == [kind |-> "none", v |-> 0, w |-> 0]
TotpCode(secret, step) == [kind |-> "totp", v |-> secret, w |-> step]
RecoveryCode(c) == [kind |-> "recovery", v |-> c, w |-> 0]
OtpCode(c) == [kind |-> "otp", v |-> c, w |-> 0]

Secrets == 1..NumSecrets
OtpCodes == {OtpCode(c) : c \in 1..NumOtpCodes}
RecoveryCodes == {RecoveryCode(c) : c \in 1..NumRecoveryCodes}
TotpCodes == {TotpCode(s, t) : s \in Secrets, t \in 0..MaxTime}
TwoFactorTokens == {NoToken} \cup TotpCodes \cup RecoveryCodes \cup OtpCodes

\* a signed JWT: the payload (sub stands for sub, email, username, role), the
\* issue and expiry seconds, and the secret it was signed with
NoJwt == [secret |-> "none", sub |-> "", iat |-> 0, exp |-> 0]
JwtSign(secret, sub, expiresIn) ==
  [secret |-> secret, sub |-> sub, iat |-> now, exp |-> now + expiresIn]
JwtVerify(token, secret) == token.secret = secret /\ now < token.exp
NoTokens == [accessToken |-> NoJwt, refreshToken |-> NoJwt]

NoMail == [to |-> "", template |-> "", otp |-> NoToken]

\* the outcome of a handler
Res(op, in, o) ==
  [op |-> op, in |-> in, out |-> o.out, err |-> o.err, method |-> o.method,
   tokens |-> o.tokens, msg |-> o.msg, codes |-> o.codes]

----------------------------------------------------------------------------
(* The cache. *)

RedisKeys ==
  {<<prefix, u>> : prefix \in {"otp:resend", "otp:attempts"}, u \in UserIds}
    \cup {<<prefix, i>> : prefix \in {"lockout:user", "lockout:locked"},
                          i \in Identifiers}
    \cup {<<"lockout:ip", a>> : a \in IpAddresses}
    \cup {<<"reset:rate", e>> : e \in Emails}

NoEntry == [val |-> 0, exp |-> 0]
\* get: 0 stands for null (key absent or expired)
RedisGet(r, key) == IF now < r[key].exp THEN r[key].val ELSE 0
RedisSet(r, key, val, ttl) == [r EXCEPT ![key] = [val |-> val, exp |-> now + ttl]]
RedisDel(r, key) == [r EXCEPT ![key] = NoEntry]
\* ttl: the seconds a key has left; what the adapter answers for a key that
\* is gone is one of -2 (the store's own answer) and 0
RedisTtl(r, key) == IF now < r[key].exp THEN {r[key].exp - now} ELSE {-2, 0}

----------------------------------------------------------------------------
(* OtpService.  Each operator computes, from the current state, the error   *)
(* thrown ("" when none) and the tables as the call leaves them.            *)

ResendKey(userId) == <<"otp:resend", userId>>
AttemptKey(userId) == <<"otp:attempts", userId>>

\* mutant: the counter is written without regard to its old value
CountResendOnce(userId, resendCount) ==
  RedisSet(redis, ResendKey(userId), 1, OtpLockout)

\* lines 68-77: the resend counter goes up by one and its ttl starts anew
CountResend(userId, resendCount) ==
  LET currentCount == resendCount
  IN  RedisSet(redis, ResendKey(userId), currentCount + 1, OtpLockout)

\* resendCount && parseInt(resendCount) >= maxResends
ResendLimitReached(resendCount) ==
  resendCount # 0 /\ resendCount >= MaxResendAttempts

\* mutant: earlier challenges of the user are left in the table
GenerateAndSendOTPKeepingOld(userId, userEmail, otp, mailOk) ==
  LET resendCount == RedisGet(redis, ResendKey(userId))
      row == [id |-> nextId.otp, userId |-> userId, otpHash |-> Hash(otp),
              attempts |-> 0, expiresAt |-> now + OtpExpiry, createdAt |-> now]
      stored == emailOTPs \cup {row}
  IN  IF ResendLimitReached(resendCount)
      THEN [err |-> "Too many OTP requests", otps |-> emailOTPs,
            redis |-> redis, mail |-> sentMail, otpId |-> nextId.otp]
      ELSE IF ~mailOk
      THEN [err |-> "Mail delivery failed", otps |-> stored,
            redis |-> redis, mail |-> sentMail, otpId |-> nextId.otp + 1]
      ELSE [err |-> "", otps |-> stored,
            redis |-> CountResend(userId, resendCount),
            mail |-> [to |-> userEmail, template |-> "otp-code", otp |-> otp],
            otpId |-> nextId.otp + 1]

\* otp is the code drawn by generateOTP, mailOk whether the mailer accepts
GenerateAndSendOTP(userId, userEmail, otp, mailOk) ==
  LET resendCount == RedisGet(redis, ResendKey(userId))
      row == [id |-> nextId.otp, userId |-> userId, otpHash |-> Hash(otp),
              attempts |-> 0, expiresAt |-> now + OtpExpiry, createdAt |-> now]
      stored == {r \in emailOTPs : r.userId # userId} \cup {row}
  IN  IF ResendLimitReached(resendCount)
      THEN [err |-> "Too many OTP requests", otps |-> emailOTPs,
            redis |-> redis, mail |-> sentMail, otpId |-> nextId.otp]
      ELSE IF ~mailOk
      THEN [err |-> "Mail delivery failed", otps |-> stored,
            redis |-> redis, mail |-> sentMail, otpId |-> nextId.otp + 1]
      ELSE [err |-> "", otps |-> stored,
            redis |-> CountResend(userId, resendCount),
            mail |-> [to |-> userEmail, template |-> "otp-code", otp |-> otp],
            otpId |-> nextId.otp + 1]

\* deleteMany(expiresAt < now): the rows a clean-up run removes
CleanExpiredOTPs == {r \in emailOTPs : ~(r.expiresAt < now)}

\* mutant: the expiry of a challenge is not looked at
LiveOtpsAnyAge(userId) ==
  {r \in emailOTPs : r.userId = userId}

\* findFirst(userId, expiresAt > now) ordered by createdAt desc
LiveOtps(userId) ==
  {r \in emailOTPs : r.userId = userId /\ r.expiresAt > now}
NewestOtps(userId) ==
  {r \in LiveOtps(userId) :
     \A q \in LiveOtps(userId) : q.createdAt <= r.createdAt}

\* mutant: the resend counter is left standing
ClearOtpCountersAttemptsOnly(userId) ==
  RedisDel(redis, AttemptKey(userId))

\* lines 145-147: both counters of the user are deleted
ClearOtpCounters(userId) ==
  RedisDel(RedisDel(redis, AttemptKey(userId)), ResendKey(userId))

\* mutant: a wrong code uses the challenge up
VerifyOTPWithBurning(userId, otp, otpRecord) ==
  LET attempts == RedisGet(redis, AttemptKey(userId))
  IN  IF ~Argon2Verify(otpRecord.otpHash, otp)
      THEN [err |-> "Invalid OTP", otps |-> emailOTPs \ {otpRecord},
            redis |-> RedisSet(redis, AttemptKey(userId), attempts + 1,
                               OtpLockout)]
      ELSE [err |-> "", otps |-> emailOTPs \ {otpRecord},
            redis |-> ClearOtpCounters(userId)]

\* otpRecord is the row findFirst returned (one of NewestOtps)
VerifyOTPWith(userId, otp, otpRecord) ==
  LET attempts == RedisGet(redis, AttemptKey(userId))
      counted == (emailOTPs \ {otpRecord})
                   \cup {[otpRecord EXCEPT !.attempts = otpRecord.attempts + 1]}
      currentAttempts == attempts
  IN  IF ~Argon2Verify(otpRecord.otpHash, otp)
      THEN [err |-> "Invalid OTP", otps |-> counted,
            redis |-> RedisSet(redis, AttemptKey(userId), currentAttempts + 1,
                               OtpLockout)]
      ELSE [err |-> "", otps |-> emailOTPs \ {otpRecord},
            redis |-> ClearOtpCounters(userId)]

\* mutant: the attempt limit is looked at after the challenge was loaded and
\* its attempt count written
VerifyOTPLateLimit(userId, otp) ==
  LET attempts == RedisGet(redis, AttemptKey(userId))
  IN  IF NewestOtps(userId) = {}
      THEN {[err |-> "OTP expired or not found", otps |-> emailOTPs,
             redis |-> redis]}
      ELSE IF attempts # 0 /\ attempts >= MaxOTPAttempts
      THEN {[err |-> "Too many verification attempts",
             otps |-> (emailOTPs \ {r})
                        \cup {[r EXCEPT !.attempts = r.attempts + 1]},
             redis |-> redis] : r \in NewestOtps(userId)}
      ELSE {VerifyOTPWith(userId, otp, r) : r \in NewestOtps(userId)}

VerifyOTP(userId, otp) ==
  LET attempts == RedisGet(redis, AttemptKey(userId))
  IN  IF attempts # 0 /\ attempts >= MaxOTPAttempts
      THEN {[err |-> "Too many verification attempts", otps |-> emailOTPs,
             redis |-> redis]}
      ELSE IF NewestOtps(userId) = {}
      THEN {[err |-> "OTP expired or not found", otps |-> emailOTPs,
             redis |-> redis]}
      ELSE {VerifyOTPWith(userId, otp, r) : r \in NewestOtps(userId)}

----------------------------------------------------------------------------
(* TwoFactorService. *)

\* the stored form of a TOTP secret (crypto.util encrypt / decrypt under the
\* configured key; the codec itself is modelled further down)
SealSecret(secret) == <<"sealed", secret>>
OpenSecret(sealed) == sealed[2]

\* mutant: a code of the secret is taken at any time step
TotpVerifyAnyStep(secret, token) ==
  /\ token.kind = "totp"
  /\ token.v = secret

\* speakeasy.totp.verify({secret, token, window}): one time step per tick
TotpVerify(secret, token) ==
  /\ token.kind = "totp"
  /\ token.v = secret
  /\ token.w >= now - TotpWindow
  /\ token.w <= now + TotpWindow

TfaRows(userId, type) ==
  {r \in twoFactorAuths : r.userId = userId /\ r.type = type}
OtherTfaRows(userId, type) == twoFactorAuths \ TfaRows(userId, type)

\* upsert of the TOTP row with a fresh secret, enabled = false
GenerateTOTPSecret(userId, secret) ==
  IF TfaRows(userId, "TOTP") = {}
  THEN twoFactorAuths \cup
         {[userId |-> userId, type |-> "TOTP", secret |-> SealSecret(secret),
           enabled |-> FALSE, recoveryCodes |-> {}]}
  ELSE OtherTfaRows(userId, "TOTP") \cup
         {[r EXCEPT !.secret = SealSecret(secret), !.enabled = FALSE] :
            r \in TfaRows(userId, "TOTP")}

\* mutant: the new recovery-code hashes are added to the stored ones
VerifyTOTPSetupAdding(userId, token, codes) ==
  IF TfaRows(userId, "TOTP") = {}
  THEN [err |-> "2FA setup not initiated", tfa |-> twoFactorAuths,
        recoveryCodes |-> {}]
  ELSE LET totpAuth == CHOOSE r \in TfaRows(userId, "TOTP") : TRUE
       IN  IF ~TotpVerify(OpenSecret(totpAuth.secret), token)
           THEN [err |-> "Invalid verification code", tfa |-> twoFactorAuths,
                 recoveryCodes |-> {}]
           ELSE [err |-> "",
                 tfa |-> OtherTfaRows(userId, "TOTP") \cup
                           {[totpAuth EXCEPT
                               !.enabled = TRUE,
                               !.recoveryCodes =
                                  @ \cup {Hash(c) : c \in codes}]},
                 recoveryCodes |-> codes]

\* codes are the recovery codes drawn by generateRecoveryCodes
VerifyTOTPSetup(userId, token, codes) ==
  IF TfaRows(userId, "TOTP") = {}
  THEN [err |-> "2FA setup not initiated", tfa |-> twoFactorAuths,
        recoveryCodes |-> {}]
  ELSE LET totpAuth == CHOOSE r \in TfaRows(userId, "TOTP") : TRUE
       IN  IF ~TotpVerify(OpenSecret(totpAuth.secret), token)
           THEN [err |-> "Invalid verification code", tfa |-> twoFactorAuths,
                 recoveryCodes |-> {}]
           ELSE [err |-> "",
                 tfa |-> OtherTfaRows(userId, "TOTP") \cup
                           {[totpAuth EXCEPT
                               !.enabled = TRUE,
                               !.recoveryCodes = {Hash(c) : c \in codes}]},
                 recoveryCodes |-> codes]

VerifyTOTP(userId, token) ==
  \E totpAuth \in TfaRows(userId, "TOTP") :
     /\ totpAuth.enabled
     /\ TotpVerify(OpenSecret(totpAuth.secret), token)

EnableEmailOTP(userId) ==
  IF TfaRows(userId, "EMAIL") = {}
  THEN twoFactorAuths \cup
         {[userId |-> userId, type |-> "EMAIL", secret |-> <<"email", 0>>,
           enabled |-> TRUE, recoveryCodes |-> {}]}
  ELSE OtherTfaRows(userId, "EMAIL") \cup
         {[r EXCEPT !.enabled = TRUE] : r \in TfaRows(userId, "EMAIL")}

Disable2FA(userId, type) ==
  OtherTfaRows(userId, type) \cup
    {[r EXCEPT !.enabled = FALSE] : r \in TfaRows(userId, type)}

\* the stored hashes the code matches (a hash is salted: one per drawn code)
MatchingHashes(totpAuth, code) ==
  {h \in totpAuth.recoveryCodes : Argon2Verify(h, code)}

\* mutant: a matched recovery code stays in the stored list
VerifyRecoveryCodeKept(userId, code) ==
  IF \E r \in TfaRows(userId, "TOTP") :
        r.enabled /\ MatchingHashes(r, code) # {}
  THEN [ok |-> TRUE, tfa |-> twoFactorAuths]
  ELSE [ok |-> FALSE, tfa |-> twoFactorAuths]

VerifyRecoveryCode(userId, code) ==
  IF \E r \in TfaRows(userId, "TOTP") :
        r.enabled /\ MatchingHashes(r, code) # {}
  THEN LET totpAuth == CHOOSE r \in TfaRows(userId, "TOTP") : TRUE
           hashedCode == CHOOSE h \in MatchingHashes(totpAuth, code) : TRUE
       IN  [ok |-> TRUE,
            tfa |-> OtherTfaRows(userId, "TOTP") \cup
                      {[totpAuth EXCEPT
                          !.recoveryCodes = @ \ {hashedCode}]}]
  ELSE [ok |-> FALSE, tfa |-> twoFactorAuths]

\* lines 244-260: the list as it was read, without the matched hash
UpdatedCodes(read, hashedCode) == read \ {hashedCode}

\* generateRecoveryCodes(count): the sets of codes one call can draw
RecoveryCodeDraws ==
  {cs \in SUBSET RecoveryCodes : Cardinality(cs) = RecoveryCodeCount}

----------------------------------------------------------------------------
(* AuthService. *)

FindUserByIdentifier(identifier) ==
  {u \in users : u.email = identifier \/ u.username = identifier}

\* cuid(): an id no row of the table has had (e-mails are unique, so one id
\* per e-mail is fresh)
FreshUserId(email) == IF email = "a@x.com" THEN "u1" ELSE "u2"

GenerateTokens(user) ==
  [accessToken |-> JwtSign("jwt.secret", user.id, AccessExpiresIn),
   refreshToken |-> JwtSign("jwt.refreshSecret", user.id, RefreshExpiresIn)]

\* mutant: one session per user, earlier ones are dropped
CreateSessionSingle(rows, userId, refreshToken) ==
  {r \in rows : r.userId # userId}
    \cup {[id |-> nextId.session, userId |-> userId,
           token |-> refreshToken, expiresAt |-> now + SessionLifetime]}

CreateSession(rows, userId, refreshToken) ==
  rows \cup {[id |-> nextId.session, userId |-> userId,
              token |-> refreshToken, expiresAt |-> now + SessionLifetime]}

LogLoginAttempt(identifier, ipAddress, success) ==
  <<[identifier |-> identifier, ipAddress |-> ipAddress,
     success |-> success]>>

AuditRow(userId, action, method, success, ipAddress) ==
  [userId |-> userId, action |-> action, method |-> method,
   success |-> success, ipAddress |-> ipAddress]

\* what a handler leaves behind when it changes nothing and logs nothing
Untouched ==
  [out |-> "error", err |-> "", method |-> "", tokens |-> NoTokens,
   msg |-> "", codes |-> {}, users |-> users, sessions |-> sessions, tfa |-> twoFactorAuths,
   otps |-> emailOTPs, redis |-> redis, log |-> <<>>,
   audit |-> <<>>, mail |-> sentMail, ids |-> nextId]

\* lines 200-221: the tail of a login that passed every check
LoginIssue(dto, ipAddress, user, after) ==
  LET tokens == GenerateTokens(user)
  IN  [after EXCEPT
         !.out = "tokens",
         !.tokens = tokens,
         !.users = (users \ {user}) \cup {[user EXCEPT !.lastLoginAt = now]},
         !.log = LogLoginAttempt(dto.identifier, ipAddress, TRUE),
         !.sessions = CreateSession(sessions, user.id, tokens.refreshToken),
         !.ids = [after.ids EXCEPT !.session = @ + 1]]

\* mutant: the outcome of the verification is not looked at
LoginVerify2FAUnchecked(dto, ipAddress, user, totpAuth, emailAuth) ==
  {LoginIssue(dto, ipAddress, user,
              [Untouched EXCEPT
                 !.audit = <<AuditRow(user.id, "2fa_verified",
                                      IF totpAuth THEN "google" ELSE "email",
                                      TRUE, ipAddress)>>])}

\* lines 144-198: second-factor verification with a submitted token
LoginVerify2FA(dto, ipAddress, user, totpAuth, emailAuth) ==
  LET method == IF totpAuth THEN "google" ELSE "email"
      failed == [Untouched EXCEPT
                   !.err = "Invalid two-factor code",
                   !.audit = <<AuditRow(user.id, "2fa_verification_failed",
                                        method, FALSE, ipAddress)>>]
      verifiedRow == AuditRow(user.id, "2fa_verified", method, TRUE, ipAddress)
  IN  IF totpAuth
      THEN IF VerifyTOTP(user.id, dto.twoFactorToken)
           THEN {LoginIssue(dto, ipAddress, user,
                            [Untouched EXCEPT !.audit = <<verifiedRow>>])}
           ELSE LET rc == VerifyRecoveryCode(user.id, dto.twoFactorToken)
                IN  IF rc.ok
                    THEN {LoginIssue(dto, ipAddress, user,
                            [Untouched EXCEPT
                               !.tfa = rc.tfa,
                               !.audit =
                                 <<AuditRow(user.id, "2fa_recovery_code_used",
                                            "recovery", TRUE, ipAddress),
                                   verifiedRow>>])}
                    ELSE {failed}
      ELSE \* emailAuth
           {IF vo.err # ""
            THEN [Untouched EXCEPT !.err = vo.err, !.otps = vo.otps,
                                   !.redis = vo.redis]
            ELSE LoginIssue(dto, ipAddress, user,
                            [Untouched EXCEPT !.otps = vo.otps,
                                              !.redis = vo.redis,
                                              !.audit = <<verifiedRow>>])
              : vo \in VerifyOTP(user.id, dto.twoFactorToken)}

\* lines 100-104: no user, or no account, for the identifier
LoginUnknownUser(dto, ipAddress) ==
  [Untouched EXCEPT
     !.err = "Invalid credentials",
     !.log = LogLoginAttempt(dto.identifier, ipAddress, FALSE)]

\* mutant: a wrong password is reported as such
LoginWrongPasswordRevealed(dto, ipAddress) ==
  [Untouched EXCEPT
     !.err = "Invalid password",
     !.log = LogLoginAttempt(dto.identifier, ipAddress, FALSE)]

\* lines 112-115: the password does not verify
LoginWrongPassword(dto, ipAddress) ==
  [Untouched EXCEPT
     !.err = "Invalid credentials",
     !.log = LogLoginAttempt(dto.identifier, ipAddress, FALSE)]

\* mutant: the TOTP challenge is labelled like the e-mail one
LoginTotpChallengeAsEmail ==
  [Untouched EXCEPT !.out = "requires2FA", !.method = "email"]

\* lines 137-141: TOTP needs no challenge to be sent
LoginTotpChallenge ==
  [Untouched EXCEPT !.out = "requires2FA", !.method = "google"]

\* mutant: the challenge is announced whether or not its mail went out
LoginEmailChallengeAnnounced(user, draws) ==
  {LET g == GenerateAndSendOTP(user.id, user.email, d[1], d[2])
       refused == g.err = "Too many OTP requests"
   IN  [Untouched EXCEPT
          !.out = IF ~refused THEN "requires2FA" ELSE "error",
          !.err = g.err,
          !.method = IF ~refused THEN "email" ELSE "",
          !.otps = g.otps, !.redis = g.redis, !.mail = g.mail,
          !.ids = [nextId EXCEPT !.otp = g.otpId]]
     : d \in draws}

\* lines 127-131: the e-mail challenge is generated and mailed
LoginEmailChallenge(user, draws) ==
  {LET g == GenerateAndSendOTP(user.id, user.email, d[1], d[2])
   IN  [Untouched EXCEPT
          !.out = IF g.err = "" THEN "requires2FA" ELSE "error",
          !.err = g.err,
          !.method = IF g.err = "" THEN "email" ELSE "",
          !.otps = g.otps, !.redis = g.redis, !.mail = g.mail,
          !.ids = [nextId EXCEPT !.otp = g.otpId]]
     : d \in draws}

\* mutant: an enabled TOTP factor takes the challenge
LoginChallengeTotpFirst(user, totpAuth, emailAuth, draws) ==
  IF totpAuth THEN {LoginTotpChallenge}
  ELSE LoginEmailChallenge(user, draws)

\* lines 125-142: the challenge sent when no token came with the login
LoginChallenge(user, totpAuth, emailAuth, draws) ==
  IF emailAuth THEN LoginEmailChallenge(user, draws)
  ELSE {LoginTotpChallenge}

\* every way login(dto, ipAddress) can end; draws are the <<code, mailer
\* answer>> pairs generateOTP and the mailer can produce should a challenge
\* be sent
LoginOutcomes(dto, ipAddress, draws) ==
  LET found == FindUserByIdentifier(dto.identifier)
  IN  IF found = {}
      THEN {LoginUnknownUser(dto, ipAddress)}
      ELSE UNION {
        IF ~Argon2Verify(user.passwordHash, dto.password)
        THEN {LoginWrongPassword(dto, ipAddress)}
        ELSE LET totpAuth == \E r \in TfaRows(user.id, "TOTP") : r.enabled
                 emailAuth == \E r \in TfaRows(user.id, "EMAIL") : r.enabled
                 has2FA == totpAuth \/ emailAuth
                 hasToken == dto.twoFactorToken # NoToken
             IN  IF has2FA /\ ~hasToken
                 THEN LoginChallenge(user, totpAuth, emailAuth, draws)
                 ELSE IF hasToken /\ has2FA
                 THEN LoginVerify2FA(dto, ipAddress, user, totpAuth, emailAuth)
                 ELSE {LoginIssue(dto, ipAddress, user, Untouched)}
        : user \in found }

\* the tables that only grow stay within the bounds of the model
Bounded(o) ==
  /\ o.ids.session <= MaxSessionId + 1
  /\ o.ids.otp <= MaxOtpId + 1

\* writes the outcome o of handler op called with input in to the store
Store(op, in, o) ==
  /\ Bounded(o)
  /\ users' = o.users
  /\ sessions' = o.sessions
  /\ twoFactorAuths' = o.tfa
  /\ emailOTPs' = o.otps
  /\ redis' = o.redis
  /\ loginAttempts' = o.log
  /\ auditLogs' = o.audit
  /\ sentMail' = o.mail
  /\ nextId' = o.ids
  /\ result' = Res(op, in, o)

\* a handler that runs from its first line to its last in one step
Commit(op, in, o) ==
  /\ Store(op, in, o)
  /\ UNCHANGED <<now, codec, checking, confirming, verifiedSecrets,
                 issuing,
                 registering,
                 refreshing,
                 passwordResetTokens,
                 consuming,
                 recording>>

\* a handler call nobody keeps a tally of
Install(op, in, o) ==
  /\ Commit(op, in, o)
  /\ UNCHANGED failedLogins

LoginDtos ==
  [identifier : Identifiers, password : Passwords,
   twoFactorToken : TwoFactorTokens]

LoginInput(dto, ipAddress) ==
  [identifier |-> dto.identifier, password |-> dto.password,
   twoFactorToken |-> dto.twoFactorToken, ipAddress |-> ipAddress]

Login(dto, ipAddress, draws) ==
  \E o \in LoginOutcomes(dto, ipAddress, draws) :
     Install("login", LoginInput(dto, ipAddress), o)

\* the caller's tally of consecutive failed logins per identifier: a failure
\* within the lockout window of the previous one adds to the count, a later
\* one starts it again, a success clears it
Tally(identifier, o) ==
  LET t == failedLogins[identifier]
  IN  [failedLogins EXCEPT
         ![identifier] =
           IF o.out = "tokens" THEN [count |-> 0, last |-> 0]
           ELSE IF o.err = "Invalid credentials"
           THEN [count |-> IF t.count > 0 /\ now < t.last + LockoutTtl
                           THEN t.count + 1 ELSE 1,
                 last |-> now]
           ELSE t]

\* login as a caller that counts its failures sees it
LoginTallied(dto, ipAddress, draws) ==
  /\ failedLogins[dto.identifier].count <= MaxAttempts
  /\ \E o \in LoginOutcomes(dto, ipAddress, draws) :
        /\ Commit("login", LoginInput(dto, ipAddress), o)
        /\ failedLogins' = Tally(dto.identifier, o)

\* mutant: the created identity is an administrator
NewUserAdmin(dto) ==
  [id |-> FreshUserId(dto.email), email |-> dto.email,
   username |-> dto.username, role |-> "ADMIN", emailVerifiedAt |-> -1,
   passwordHash |-> Hash(dto.password), lastLoginAt |-> -1]

\* prisma.user.create: the row with its account; -1 stands for null
NewUser(dto) ==
  [id |-> FreshUserId(dto.email), email |-> dto.email,
   username |-> dto.username, role |-> "USER", emailVerifiedAt |-> -1,
   passwordHash |-> Hash(dto.password), lastLoginAt |-> -1]

\* mutant: only the e-mail is looked up
RegisterOutcomesEmailOnly(dto) ==
  LET existing == {u \in users : u.email = dto.email}
      user == NewUser(dto)
      tokens == GenerateTokens(user)
  IN  IF existing # {}
      THEN {[Untouched EXCEPT !.err = "Email already exists"]}
      ELSE {[Untouched EXCEPT
               !.out = "tokens", !.tokens = tokens,
               !.users = users \cup {user},
               !.sessions = CreateSession(sessions, user.id,
                                          tokens.refreshToken),
               !.ids = [nextId EXCEPT !.session = @ + 1]]}

RegisterOutcomes(dto) ==
  LET existing == {u \in users : u.email = dto.email
                                   \/ u.username = dto.username}
      user == NewUser(dto)
      tokens == GenerateTokens(user)
  IN  IF existing # {}
      THEN {[Untouched EXCEPT
               !.err = IF existingUser.email = dto.email
                       THEN "Email already exists"
                       ELSE "Username already exists"]
              : existingUser \in existing}
      ELSE {[Untouched EXCEPT
               !.out = "tokens", !.tokens = tokens,
               !.users = users \cup {user},
               !.sessions = CreateSession(sessions, user.id,
                                          tokens.refreshToken),
               !.ids = [nextId EXCEPT !.session = @ + 1]]}

Register(dto) ==
  \E o \in RegisterOutcomes(dto) : Install("register", dto, o)

\* register awaits findFirst, argon2.hash and user.create one after the other:
\* other calls run in between.  The two actions below are register cut
\* between the uniqueness check and the creation of the user.

MaxRegistering == 2

\* auth.service.ts 33-47: the check for an existing e-mail or username
RegisterCheck(dto) ==
  /\ Cardinality(registering) < MaxRegistering
  /\ \E o \in RegisterOutcomes(dto) :
        IF o.err # ""
        THEN /\ registering' = registering
             /\ Store("register", dto, o)
        ELSE /\ registering' = registering \cup {dto}
             /\ Store("register", dto, [Untouched EXCEPT !.out = "pending"])
  /\ UNCHANGED <<now, codec, failedLogins, checking, confirming,
                 verifiedSecrets, issuing, refreshing,
                 passwordResetTokens,
                 consuming,
                 recording>>

\* the users table is unique on email and on username: an insert that
\* repeats either is refused by the store
UniqueViolation(dto) ==
  \E u \in users : u.email = dto.email \/ u.username = dto.username

\* auth.service.ts 50-80: user.create, then the tokens and the session; the
\* store's refusal of the insert is not caught and leaves register as it is
RegisterCreate(dto) ==
  /\ dto \in registering
  /\ registering' = registering \ {dto}
  /\ LET user == NewUser(dto)
         tokens == GenerateTokens(user)
     IN  Store("register", dto,
               IF UniqueViolation(dto)
               THEN [Untouched EXCEPT !.err = "Unique constraint failed"]
               ELSE [Untouched EXCEPT
                       !.out = "tokens", !.tokens = tokens,
                       !.users = users \cup {user},
                       !.sessions = CreateSession(sessions, user.id,
                                                  tokens.refreshToken),
                       !.ids = [nextId EXCEPT !.session = @ + 1]])
  /\ UNCHANGED <<now, codec, failedLogins, checking, confirming,
                 verifiedSecrets, issuing, refreshing,
                 passwordResetTokens,
                 consuming,
                 recording>>

\* mutant: the session's own expiry is not looked at
ValidSessionsAnyAge(refreshToken) ==
  {r \in sessions : /\ r.token = refreshToken
                    /\ r.userId = refreshToken.sub}

\* the rows findFirst may return for a presented refresh token
ValidSessions(refreshToken) ==
  {r \in sessions : /\ r.token = refreshToken
                    /\ r.userId = refreshToken.sub
                    /\ r.expiresAt > now}

RefreshOutcomes(refreshToken) ==
  LET invalid == [Untouched EXCEPT !.err = "Invalid refresh token"]
      found == {u \in users : u.id = refreshToken.sub}
  IN  IF ~JwtVerify(refreshToken, "jwt.refreshSecret")
      THEN {invalid}
      ELSE IF ValidSessions(refreshToken) = {}
      THEN {invalid}
      ELSE IF found = {}
      THEN {invalid}
      ELSE {LET tokens == GenerateTokens(user)
            IN  [Untouched EXCEPT
                   !.out = "tokens", !.tokens = tokens,
                   !.sessions = CreateSession(sessions \ {session}, user.id,
                                              tokens.refreshToken),
                   !.ids = [nextId EXCEPT !.session = @ + 1]]
              : session \in ValidSessions(refreshToken), user \in found}

RefreshTokens(refreshToken) ==
  \E o \in RefreshOutcomes(refreshToken) :
     Install("refreshTokens", [refreshToken |-> refreshToken], o)

\* refreshTokens awaits findFirst, findUnique, the signing of the tokens,
\* session.delete and session.create one after the other: other calls run in
\* between.  The four actions below are refreshTokens cut at those points.
\* A call under way records whether another call presenting the same token
\* returned tokens meanwhile (beaten).

MaxRefreshing == 2

RefreshCalls == 1..MaxRefreshing

RefreshFrame ==
  UNCHANGED <<now, codec, failedLogins, checking, confirming,
              verifiedSecrets, issuing, registering, passwordResetTokens,
                 consuming,
                 recording>>

\* lines 225-240: jwtService.verify, and findFirst is sent to the store
RefreshBegin(call, refreshToken) ==
  /\ \A c \in refreshing : c.call # call
  /\ IF JwtVerify(refreshToken, "jwt.refreshSecret")
     THEN /\ refreshing' = refreshing \cup
                {[call |-> call, refreshToken |-> refreshToken,
                  pc |-> "find", sessionId |-> 0, tokens |-> NoTokens,
                  beaten |-> FALSE]}
          /\ Store("refreshTokens", [refreshToken |-> refreshToken],
                   [Untouched EXCEPT !.out = "pending"])
     ELSE /\ refreshing' = refreshing
          /\ Store("refreshTokens", [refreshToken |-> refreshToken],
                   [Untouched EXCEPT !.err = "Invalid refresh token"])
  /\ RefreshFrame

\* lines 232-256: the session row and the user are read, the tokens signed
RefreshFind(c) ==
  /\ c \in refreshing
  /\ c.pc = "find"
  /\ LET found == {u \in users : u.id = c.refreshToken.sub}
     IN  IF ValidSessions(c.refreshToken) = {} \/ found = {}
         THEN /\ refreshing' = refreshing \ {c}
              /\ Store("refreshTokens", [refreshToken |-> c.refreshToken],
                       [Untouched EXCEPT !.err = "Invalid refresh token"])
         ELSE \E session \in ValidSessions(c.refreshToken), user \in found :
                /\ refreshing' = (refreshing \ {c}) \cup
                     {[c EXCEPT !.pc = "delete", !.sessionId = session.id,
                                !.tokens = GenerateTokens(user)]}
                /\ Store("refreshTokens", [refreshToken |-> c.refreshToken],
                         [Untouched EXCEPT !.out = "pending"])
  /\ RefreshFrame

\* prisma.session.delete({where: {id}}): fails when no row has the id
SessionDelete(rows, id) ==
  IF \E r \in rows : r.id = id
  THEN [err |-> "", rows |-> {r \in rows : r.id # id}]
  ELSE [err |-> "Record to delete does not exist", rows |-> rows]

\* lines 259-261 and the catch of 266-268
RefreshDelete(c) ==
  /\ c \in refreshing
  /\ c.pc = "delete"
  /\ LET deleted == SessionDelete(sessions, c.sessionId)
     IN  IF deleted.err # ""
         THEN /\ refreshing' = refreshing \ {c}
              /\ Store("refreshTokens", [refreshToken |-> c.refreshToken],
                       [Untouched EXCEPT !.err = "Invalid refresh token"])
         ELSE /\ refreshing' = (refreshing \ {c}) \cup
                                {[c EXCEPT !.pc = "create"]}
              /\ Store("refreshTokens", [refreshToken |-> c.refreshToken],
                       [Untouched EXCEPT !.out = "pending",
                                         !.sessions = deleted.rows])
  /\ RefreshFrame

\* lines 263-265: createSession and the answer
RefreshCreate(c) ==
  /\ c \in refreshing
  /\ c.pc = "create"
  /\ refreshing' =
       {[d EXCEPT !.beaten = @ \/ d.refreshToken = c.refreshToken] :
          d \in refreshing \ {c}}
  /\ Store("refreshTokens", [refreshToken |-> c.refreshToken],
           [Untouched EXCEPT
              !.out = "tokens", !.tokens = c.tokens,
              !.sessions = CreateSession(sessions, c.refreshToken.sub,
                                         c.tokens.refreshToken),
              !.ids = [nextId EXCEPT !.session = @ + 1]])
  /\ RefreshFrame

\* mutant: the token alone selects the rows
LogoutOutcomeByToken(userId, refreshToken) ==
  [Untouched EXCEPT
     !.out = "ok",
     !.sessions =
       IF refreshToken # NoJwt
       THEN {r \in sessions : r.token # refreshToken}
       ELSE {r \in sessions : r.userId # userId}]

LogoutOutcome(userId, refreshToken) ==
  [Untouched EXCEPT
     !.out = "ok",
     !.sessions =
       IF refreshToken # NoJwt
       THEN {r \in sessions : ~(r.userId = userId /\ r.token = refreshToken)}
       ELSE {r \in sessions : r.userId # userId}]

\* behind JwtAuthGuard: the caller is a registered user
Logout(user, refreshToken) ==
  /\ user \in users
  /\ Install("logout", [userId |-> user.id, refreshToken |-> refreshToken],
             LogoutOutcome(user.id, refreshToken))

\* mutant: the token is taken only while its user has a session
ValidateTokenWithSession(token) ==
  IF /\ JwtVerify(token, "jwt.secret")
     /\ \E u \in users : u.id = token.sub
     /\ \E r \in sessions : r.userId = token.sub
  THEN [Untouched EXCEPT !.out = "ok"]
  ELSE [Untouched EXCEPT !.err = "Invalid token"]

\* lines 288-306: the signature and expiry of the token, then the user row
ValidateToken(token) ==
  IF /\ JwtVerify(token, "jwt.secret")
     /\ \E u \in users : u.id = token.sub
  THEN [Untouched EXCEPT !.out = "ok"]
  ELSE [Untouched EXCEPT !.err = "Invalid token"]

ValidateTokenCall(token) ==
  Install("validateToken", [token |-> token], ValidateToken(token))

----------------------------------------------------------------------------
(* AccountLockoutService.  No handler of the program calls it; its callers  *)
(* are modelled as free calls of its public methods.  Its durations are in  *)
(* seconds: a specification that runs it reads the clock in seconds.        *)

UserKey(identifier) == <<"lockout:user", identifier>>
LockedKey(identifier) == <<"lockout:locked", identifier>>
IpKey(ipAddress) == <<"lockout:ip", ipAddress>>

LockoutSeconds == LockoutTtl * SecondsPerMinute

\* the value stored under the lock key ('locked')
Locked == 1

\* an absent origin address
NoIp == ""

\* recordFailedAttempt passes neither an e-mail nor a name: no notice is sent
LockAccount(r, identifier, durationMinutes) ==
  RedisSet(r, LockedKey(identifier), Locked, durationMinutes * SecondsPerMinute)

Increment(r, key) ==
  LET attempts == RedisGet(r, key)
  IN  IF attempts # 0 THEN attempts + 1 ELSE 1

\* mutant: the lock is set one failure late
RecordFailedAttemptLate(r, identifier, ipAddress) ==
  LET newAttempts == Increment(r, UserKey(identifier))
      r1 == RedisSet(r, UserKey(identifier), newAttempts, LockoutSeconds)
      r2 == IF ipAddress # NoIp
            THEN RedisSet(r1, IpKey(ipAddress),
                          Increment(r1, IpKey(ipAddress)), LockoutSeconds)
            ELSE r1
  IN  IF newAttempts > MaxAttempts
      THEN LockAccount(r2, identifier, LockoutTtl)
      ELSE r2

RecordFailedAttempt(r, identifier, ipAddress) ==
  LET newAttempts == Increment(r, UserKey(identifier))
      r1 == RedisSet(r, UserKey(identifier), newAttempts, LockoutSeconds)
      r2 == IF ipAddress # NoIp
            THEN RedisSet(r1, IpKey(ipAddress),
                          Increment(r1, IpKey(ipAddress)), LockoutSeconds)
            ELSE r1
  IN  IF newAttempts >= MaxAttempts
      THEN LockAccount(r2, identifier, LockoutTtl)
      ELSE r2

ResetAttempts(r, identifier, ipAddress) ==
  LET r1 == RedisDel(r, UserKey(identifier))
  IN  IF ipAddress # NoIp THEN RedisDel(r1, IpKey(ipAddress)) ELSE r1

\* mutant: the failure counter survives the unlock
UnlockAccountFlagOnly(r, identifier) ==
  RedisDel(r, LockedKey(identifier))

UnlockAccount(r, identifier) ==
  RedisDel(RedisDel(r, LockedKey(identifier)), UserKey(identifier))

CeilDiv(a, b) == -((-a) \div b)

TrackerInput(identifier, ipAddress) ==
  [identifier |-> identifier, ipAddress |-> ipAddress]

\* the counters are capped so that the model stays finite
RecordFailure(identifier, ipAddress) ==
  /\ RedisGet(redis, UserKey(identifier)) <= MaxAttempts
  /\ ipAddress # NoIp => RedisGet(redis, IpKey(ipAddress)) <= MaxAttempts
  /\ Install("recordFailedAttempt", TrackerInput(identifier, ipAddress),
             [Untouched EXCEPT
                !.out = "ok",
                !.redis = RecordFailedAttempt(redis, identifier, ipAddress)])

\* recordFailedAttempt awaits the get of the identifier's counter and then
\* its set: other calls run in between.  The two actions below are the call
\* cut at that point.

MaxRecording == 2

RecordingCalls == 1..MaxRecording

RecordingFrame ==
  UNCHANGED <<now, codec, failedLogins, checking, confirming,
              verifiedSecrets, issuing, registering, refreshing,
              passwordResetTokens, consuming>>

\* lines 27-29: the counter is read and the new value computed
RecordGet(call, identifier, ipAddress) ==
  /\ \A c \in recording : c.call # call
  /\ RedisGet(redis, UserKey(identifier)) <= MaxAttempts
  /\ recording' = recording \cup
       {[call |-> call, identifier |-> identifier, ipAddress |-> ipAddress,
         newAttempts |-> Increment(redis, UserKey(identifier))]}
  /\ Store("recordFailedAttempt", TrackerInput(identifier, ipAddress),
           [Untouched EXCEPT !.out = "pending"])
  /\ RecordingFrame

\* lines 32-53: the value computed from the counter as it was read is
\* stored, then the address is counted and the account locked
RecordSet(c) ==
  /\ c \in recording
  /\ recording' = recording \ {c}
  /\ LET r1 == RedisSet(redis, UserKey(c.identifier), c.newAttempts,
                        LockoutSeconds)
         r2 == IF c.ipAddress # NoIp
               THEN RedisSet(r1, IpKey(c.ipAddress),
                             Increment(r1, IpKey(c.ipAddress)),
                             LockoutSeconds)
               ELSE r1
     IN  Store("recordFailedAttempt",
               TrackerInput(c.identifier, c.ipAddress),
               [Untouched EXCEPT
                  !.out = "ok",
                  !.redis = IF c.newAttempts >= MaxAttempts
                            THEN LockAccount(r2, c.identifier, LockoutTtl)
                            ELSE r2])
  /\ RecordingFrame

ResetAttemptsCall(identifier, ipAddress) ==
  Install("resetAttempts", TrackerInput(identifier, ipAddress),
          [Untouched EXCEPT
             !.out = "ok",
             !.redis = ResetAttempts(redis, identifier, ipAddress)])

UnlockAccountCall(identifier) ==
  Install("unlockAccount", [identifier |-> identifier],
          [Untouched EXCEPT
             !.out = "ok", !.redis = UnlockAccount(redis, identifier)])

\* checkLockout up to its first await: the read of the lock flag
CheckLockoutGet(identifier) ==
  /\ checking.pc # "ttl"
  /\ LET locked == RedisGet(redis, LockedKey(identifier))
     IN  /\ checking' = IF locked # 0
                        THEN [pc |-> "ttl", identifier |-> identifier,
                              minutes |-> 0]
                        ELSE [pc |-> "returned", identifier |-> identifier,
                              minutes |-> 0]
         /\ Store("checkLockout", [identifier |-> identifier],
                  [Untouched EXCEPT
                     !.out = IF locked # 0 THEN "pending" ELSE "ok"])
  /\ UNCHANGED <<now, codec, failedLogins, confirming, verifiedSecrets,
                 issuing,
                 registering,
                 refreshing,
                 passwordResetTokens,
                 consuming,
                 recording>>

\* checkLockout from the read of the ttl to the throw
CheckLockoutTtl ==
  /\ checking.pc = "ttl"
  /\ \E ttl \in RedisTtl(redis, LockedKey(checking.identifier)) :
        LET minutesLeft == CeilDiv(ttl, SecondsPerMinute)
        IN  /\ checking' = [checking EXCEPT !.pc = "thrown",
                                            !.minutes = minutesLeft]
            /\ Store("checkLockout", [identifier |-> checking.identifier],
                     [Untouched EXCEPT
                        !.err = "Account is temporarily locked"])
  /\ UNCHANGED <<now, codec, failedLogins, confirming, verifiedSecrets,
                 issuing,
                 registering,
                 refreshing,
                 passwordResetTokens,
                 consuming,
                 recording>>

----------------------------------------------------------------------------
(* AuthController: the second-factor endpoints. *)

Enable2FAOutcome(user, method, secret, ipAddress) ==
  IF method = "TOTP"
  THEN [Untouched EXCEPT
          !.out = "ok", !.method = "google",
          !.tfa = GenerateTOTPSecret(user.id, secret),
          !.audit = <<AuditRow(user.id, "2fa_setup_initiated", "google",
                               TRUE, ipAddress)>>]
  ELSE [Untouched EXCEPT
          !.out = "ok", !.method = "email",
          !.tfa = EnableEmailOTP(user.id),
          !.audit = <<AuditRow(user.id, "2fa_enabled", "email", TRUE,
                               ipAddress)>>]

Enable2FA(user, method, secret, ipAddress) ==
  /\ user \in users
  /\ Install("enable2FA",
             [userId |-> user.id, method |-> method, secret |-> secret],
             Enable2FAOutcome(user, method, secret, ipAddress))

Verify2FASetupOutcome(user, token, codes, ipAddress) ==
  LET v == VerifyTOTPSetup(user.id, token, codes)
  IN  IF v.err # ""
      THEN [Untouched EXCEPT !.err = v.err]
      ELSE [Untouched EXCEPT
              !.out = "ok", !.tfa = v.tfa, !.codes = v.recoveryCodes,
              !.audit = <<AuditRow(user.id, "2fa_enabled", "google", TRUE,
                                   ipAddress)>>]

Verify2FASetup(user, token, codes, ipAddress) ==
  /\ user \in users
  /\ Install("verify2FASetup", [userId |-> user.id, token |-> token],
             Verify2FASetupOutcome(user, token, codes, ipAddress))

\* verifyTOTPSetup awaits the read of the row, the hashing of the recovery
\* codes and the update: other calls run between its read and its update.
\* The two actions below are verify2FASetup cut at that point.

MaxInFlight == 1

\* lines 71-105: read the row, open the secret, check the code
ConfirmSetupRead(user, token) ==
  /\ user \in users
  /\ Cardinality(confirming) < MaxInFlight
  /\ LET rows == TfaRows(user.id, "TOTP")
         valid == {r \in rows : TotpVerify(OpenSecret(r.secret), token)}
         err == IF rows = {} THEN "2FA setup not initiated"
                ELSE IF valid = {} THEN "Invalid verification code"
                ELSE ""
     IN  /\ confirming' = confirming \cup
                            {[userId |-> user.id, token |-> token,
                              secret |-> r.secret] : r \in valid}
         /\ verifiedSecrets' = verifiedSecrets \cup
                                 {<<user.id, r.secret>> : r \in valid}
         /\ Store("verify2FASetup", [userId |-> user.id, token |-> token],
                  [Untouched EXCEPT
                     !.out = IF err = "" THEN "pending" ELSE "error",
                     !.err = err])
  /\ UNCHANGED <<now, codec, failedLogins, checking, issuing,
                 registering,
                 refreshing,
                 passwordResetTokens,
                 consuming,
                 recording>>

\* lines 107-127 and the controller's audit entry: draw and hash the
\* recovery codes, set enabled and the codes on the row as it is now
ConfirmSetupWrite(call, codes, ipAddress) ==
  /\ call \in confirming
  /\ confirming' = confirming \ {call}
  /\ Store("verify2FASetup", [userId |-> call.userId, token |-> call.token],
           [Untouched EXCEPT
              !.out = "ok",
              !.codes = codes,
              !.tfa = OtherTfaRows(call.userId, "TOTP") \cup
                        {[r EXCEPT !.enabled = TRUE,
                                   !.recoveryCodes = {Hash(c) : c \in codes}]
                           : r \in TfaRows(call.userId, "TOTP")},
              !.audit = <<AuditRow(call.userId, "2fa_enabled", "google", TRUE,
                                   ipAddress)>>])
  /\ UNCHANGED <<now, codec, failedLogins, checking, verifiedSecrets,
                 issuing,
                 registering,
                 refreshing,
                 passwordResetTokens,
                 consuming,
                 recording>>

Disable2FADtos ==
  [password : Passwords, method : {"TOTP", "EMAIL"}, token : TwoFactorTokens]

Disable2FAOutcomes(user, dto, ipAddress) ==
  LET disabled(after) ==
        [after EXCEPT
           !.out = "ok",
           !.tfa = Disable2FA(user.id, dto.method),
           !.audit = <<AuditRow(user.id, "2fa_disabled",
                                IF dto.method = "TOTP" THEN "google"
                                ELSE "email", TRUE, ipAddress)>>]
  IN  IF ~Argon2Verify(user.passwordHash, dto.password)
      THEN {[Untouched EXCEPT !.err = "Invalid password"]}
      ELSE IF dto.token = NoToken
      THEN {disabled(Untouched)}
      ELSE IF dto.method = "TOTP"
      THEN IF VerifyTOTP(user.id, dto.token)
           THEN {disabled(Untouched)}
           ELSE {[Untouched EXCEPT !.err = "Invalid 2FA token"]}
      ELSE {IF vo.err # ""
            THEN [Untouched EXCEPT !.err = vo.err, !.otps = vo.otps,
                                   !.redis = vo.redis]
            ELSE disabled([Untouched EXCEPT !.otps = vo.otps,
                                            !.redis = vo.redis])
              : vo \in VerifyOTP(user.id, dto.token)}

Disable2FAHandler(user, dto, ipAddress) ==
  /\ user \in users
  /\ \E o \in Disable2FAOutcomes(user, dto, ipAddress) :
        Install("disable2FA",
                [userId |-> user.id, password |-> dto.password,
                 method |-> dto.method, token |-> dto.token], o)

ResendOTPOutcomes(identifier, draws, ipAddress) ==
  LET found == FindUserByIdentifier(identifier)
  IN  IF found = {}
      THEN {[Untouched EXCEPT
               !.out = "ok",
               !.msg = "If the account exists, an OTP has been sent"]}
      ELSE {LET g == GenerateAndSendOTP(user.id, user.email, d[1], d[2])
            IN  IF g.err # ""
                THEN [Untouched EXCEPT
                        !.err = g.err, !.otps = g.otps, !.redis = g.redis,
                        !.mail = g.mail,
                        !.ids = [nextId EXCEPT !.otp = g.otpId]]
                ELSE [Untouched EXCEPT
                        !.out = "ok",
                        !.msg = "A new verification code has been sent to your email",
                        !.otps = g.otps, !.redis = g.redis, !.mail = g.mail,
                        !.ids = [nextId EXCEPT !.otp = g.otpId],
                        !.audit = <<AuditRow(user.id, "2fa_otp_resent",
                                             "email", TRUE, ipAddress)>>]
              : user \in found, d \in draws}

ResendOTP(identifier, draws, ipAddress) ==
  \E o \in ResendOTPOutcomes(identifier, draws, ipAddress) :
     Install("resendOTP", [identifier |-> identifier], o)

\* generateAndSendOTP awaits the deletion of the user's challenges and then
\* the creation of the new one: other calls run in between.  The two actions
\* below are resendOTP for a known user, cut between the two statements.

MaxIssuing == 2

\* auth.controller.ts 270-284 and generateAndSendOTP lines 25-54: find the
\* user, read the resend counter, draw the code, delete the old challenges
IssueBegin(identifier, otp) ==
  /\ Cardinality(issuing) < MaxIssuing
  /\ \E user \in FindUserByIdentifier(identifier) :
        LET resendCount == RedisGet(redis, ResendKey(user.id))
            refused == ResendLimitReached(resendCount)
        IN  /\ issuing' =
                 IF refused THEN issuing
                 ELSE issuing \cup
                        {[userId |-> user.id, userEmail |-> user.email,
                          otp |-> otp, resendCount |-> resendCount,
                          expiresAt |-> now + OtpExpiry]}
            /\ Store("resendOTP", [identifier |-> identifier],
                     [Untouched EXCEPT
                        !.out = IF refused THEN "error" ELSE "pending",
                        !.err = IF refused THEN "Too many OTP requests"
                                ELSE "",
                        !.otps = IF refused THEN emailOTPs
                                 ELSE {r \in emailOTPs : r.userId # user.id}])
  /\ UNCHANGED <<now, codec, failedLogins, checking, confirming,
                 verifiedSecrets, registering,
                 refreshing,
                 passwordResetTokens,
                 consuming,
                 recording>>

\* generateAndSendOTP lines 56-77 and auth.controller.ts 286-296: store the
\* new challenge, mail the code, count the resend, log the action
IssueEnd(call, mailOk, ipAddress) ==
  /\ call \in issuing
  /\ issuing' = issuing \ {call}
  /\ LET row == [id |-> nextId.otp, userId |-> call.userId,
                 otpHash |-> Hash(call.otp), attempts |-> 0,
                 expiresAt |-> call.expiresAt, createdAt |-> now]
         stored == [Untouched EXCEPT
                      !.otps = emailOTPs \cup {row},
                      !.ids = [nextId EXCEPT !.otp = @ + 1]]
     IN  Store("resendOTP", [identifier |-> call.userEmail],
               IF mailOk
               THEN [stored EXCEPT
                       !.out = "ok",
                       !.msg = "A new verification code has been sent to your email",
                       !.redis = CountResend(call.userId, call.resendCount),
                       !.mail = [to |-> call.userEmail,
                                 template |-> "otp-code", otp |-> call.otp],
                       !.audit = <<AuditRow(call.userId, "2fa_otp_resent",
                                            "email", TRUE, ipAddress)>>]
               ELSE [stored EXCEPT !.err = "Mail delivery failed"])
  /\ UNCHANGED <<now, codec, failedLogins, checking, confirming,
                 verifiedSecrets, registering,
                 refreshing,
                 passwordResetTokens,
                 consuming,
                 recording>>

\* the clean-up job of OtpService
CleanExpired ==
  Install("cleanExpiredOTPs", [at |-> now],
          [Untouched EXCEPT !.out = "ok", !.otps = CleanExpiredOTPs])

----------------------------------------------------------------------------
(* crypto.util: the secret codec.  A text is a sequence of bytes, a hex      *)
(* string and an envelope are sequences of characters.  The cipher is a     *)
(* stand-in for AES-256-GCM with its shape: a key stream added byte by byte *)
(* (counter mode), and a tag computed from key, iv and ciphertext.          *)

MaxTextLen == 2
NumKeys == 2
NumIvs == 2

\* bytes a text is made of: NUL, ':' and 0xff
TextBytes == {0, 58, 255}
Texts == UNION {[1..n -> TextBytes] : n \in 0..MaxTextLen}
Keys == 1..NumKeys
Ivs == 1..NumIvs

HexDigits == <<"0", "1", "2", "3", "4", "5", "6", "7",
               "8", "9", "a", "b", "c", "d", "e", "f">>

\* Buffer.toString('hex')
RECURSIVE ToHex(_)
ToHex(bytes) ==
  IF bytes = <<>> THEN <<>>
  ELSE <<HexDigits[(Head(bytes) \div 16) + 1],
         HexDigits[(Head(bytes) % 16) + 1]>> \o ToHex(Tail(bytes))

IsHexDigit(ch) == \E v \in 1..16 : HexDigits[v] = ch
HexValue(ch) == (CHOOSE v \in 1..16 : HexDigits[v] = ch) - 1

\* Buffer.from(hex, 'hex'): whole pairs of hex digits up to the first
\* character that is none
RECURSIVE FromHex(_)
FromHex(chars) ==
  IF Len(chars) < 2 \/ ~IsHexDigit(chars[1]) \/ ~IsHexDigit(chars[2])
  THEN <<>>
  ELSE <<16 * HexValue(chars[1]) + HexValue(chars[2])>>
         \o FromHex(SubSeq(chars, 3, Len(chars)))

\* String.prototype.split(':')
RECURSIVE Split(_)
Split(chars) ==
  IF \A i \in 1..Len(chars) : chars[i] # ":"
  THEN <<chars>>
  ELSE LET at == CHOOSE i \in 1..Len(chars) :
                   chars[i] = ":" /\ \A j \in 1..(i - 1) : chars[j] # ":"
       IN  <<SubSeq(chars, 1, at - 1)>>
             \o Split(SubSeq(chars, at + 1, Len(chars)))

\* the n-th element of a destructured array; undefined and "" are both
\* falsy and both stand as the empty string
Part(parts, n) == IF n <= Len(parts) THEN parts[n] ELSE <<>>

KeyStream(key, iv, i) == (key * 31 + iv * 17 + i * 7) % 256

\* cipher.update + cipher.final
CipherUpdate(text, key, iv) ==
  [i \in 1..Len(text) |-> (text[i] + KeyStream(key, iv, i)) % 256]

\* decipher.update + decipher.final
DecipherUpdate(data, key, iv) ==
  [i \in 1..Len(data) |-> (data[i] + 256 - KeyStream(key, iv, i)) % 256]

RECURSIVE Digest(_, _)
Digest(data, i) ==
  IF i > Len(data) THEN Len(data) ELSE data[i] * i + Digest(data, i + 1)

\* cipher.getAuthTag()
GetAuthTag(data, key, iv) == <<(key * 101 + iv * 53 + Digest(data, 1)) % 256>>

\* encrypt(text, encryptionKey) with iv the bytes randomBytes drew
Encrypt(text, key, iv) ==
  LET encrypted == ToHex(CipherUpdate(text, key, iv))
      authTag == GetAuthTag(CipherUpdate(text, key, iv), key, iv)
  IN  ToHex(<<iv>>) \o <<":">> \o ToHex(authTag) \o <<":">> \o encrypted

\* decrypt(encryptedText, encryptionKey): the error thrown ("" when none)
\* and the text returned
Decrypt(encryptedText, key) ==
  LET parts == Split(encryptedText)
      ivHex == Part(parts, 1)
      authTagHex == Part(parts, 2)
      encrypted == Part(parts, 3)
      ivBytes == FromHex(ivHex)
      iv == IF ivBytes = <<>> THEN 0 ELSE ivBytes[1]
      data == FromHex(encrypted)
  IN  IF ivHex = <<>> \/ authTagHex = <<>> \/ encrypted = <<>>
      THEN [err |-> "Invalid encrypted text format", text |-> <<>>]
      ELSE IF FromHex(authTagHex) # GetAuthTag(data, key, iv)
      THEN [err |-> "Unsupported state or unable to authenticate data",
            text |-> <<>>]
      ELSE [err |-> "", text |-> DecipherUpdate(data, key, iv)]

\* a caller seals a text
EncryptText(text, key, iv) ==
  /\ codec' = [text |-> text, key |-> key, iv |-> iv,
               envelope |-> Encrypt(text, key, iv),
               decKey |-> 0, out |-> "", decrypted |-> <<>>]
  /\ UNCHANGED <<users, sessions, twoFactorAuths, emailOTPs, redis,
                 loginAttempts, auditLogs, sentMail, now, nextId,
                 failedLogins, checking, confirming, verifiedSecrets,
                 issuing,
                 registering,
                 refreshing,
                 passwordResetTokens,
                 consuming,
                 recording, result>>

\* a caller opens the envelope it holds
DecryptEnvelope(key) ==
  /\ codec.envelope # <<>>
  /\ codec.out = ""
  /\ LET d == Decrypt(codec.envelope, key)
     IN  codec' = [codec EXCEPT
                     !.decKey = key,
                     !.out = IF d.err = "" THEN "ok" ELSE d.err,
                     !.decrypted = d.text]
  /\ UNCHANGED <<users, sessions, twoFactorAuths, emailOTPs, redis,
                 loginAttempts, auditLogs, sentMail, now, nextId,
                 failedLogins, checking, confirming, verifiedSecrets,
                 issuing,
                 registering,
                 refreshing,
                 passwordResetTokens,
                 consuming,
                 recording, result>>

----------------------------------------------------------------------------
(* verifyRecoveryCode awaits the read of the row, argon2.verify and the     *)
(* update: other calls run between its read and its update.  The two       *)
(* actions below are the call cut at that point.                            *)

MaxConsuming == 2

RecoveryCalls == 1..MaxConsuming

RecoveryFrame ==
  UNCHANGED <<now, codec, failedLogins, checking, confirming,
              verifiedSecrets, issuing, registering, refreshing,
              passwordResetTokens, recording>>

\* two-factor.service.ts 224-246: the row is read and the code matched
\* against the hashes read
RecoveryRead(call, userId, code) ==
  /\ \A c \in consuming : c.call # call
  /\ LET matched == {r \in TfaRows(userId, "TOTP") :
                       r.enabled /\ MatchingHashes(r, code) # {}}
     IN  IF matched = {}
         THEN /\ consuming' = consuming
              /\ Store("verifyRecoveryCode",
                       [userId |-> userId, code |-> code],
                       [Untouched EXCEPT !.out = "false"])
         ELSE \E totpAuth \in matched :
                /\ consuming' = consuming \cup
                     {[call |-> call, userId |-> userId, code |-> code,
                       read |-> totpAuth.recoveryCodes,
                       hashedCode |-> CHOOSE h \in MatchingHashes(totpAuth,
                                                                  code) : TRUE]}
                /\ Store("verifyRecoveryCode",
                         [userId |-> userId, code |-> code],
                         [Untouched EXCEPT !.out = "pending"])
  /\ RecoveryFrame

\* two-factor.service.ts 248-260: the row is updated with the list computed
\* from the hashes read
RecoveryWrite(c) ==
  /\ c \in consuming
  /\ consuming' = consuming \ {c}
  /\ Store("verifyRecoveryCode", [userId |-> c.userId, code |-> c.code],
           [Untouched EXCEPT
              !.out = "true",
              !.tfa = OtherTfaRows(c.userId, "TOTP") \cup
                        {[r EXCEPT !.recoveryCodes =
                                      UpdatedCodes(c.read, c.hashedCode)]
                           : r \in TfaRows(c.userId, "TOTP")}])
  /\ RecoveryFrame

----------------------------------------------------------------------------
(* PasswordResetService. *)

RateKey(email) == <<"reset:rate", email>>

ResetToken(c) == [kind |-> "reset", v |-> c, w |-> 0]
ResetTokens == {ResetToken(c) : c \in 1..NumResetTokens}

ResetFrame ==
  UNCHANGED <<now, codec, failedLogins, checking, confirming,
              verifiedSecrets, issuing, registering, refreshing, consuming,
                 recording>>

\* lines 25-102; tokenString is the token drawn by randomBytes
InitiateResetOutcome(email, tokenString, mailOk) ==
  LET attempts == RedisGet(redis, RateKey(email))
      found == {u \in users : u.email = email}
      counted == RedisSet(redis, RateKey(email), attempts + 1, ResetRateTtl)
  IN  IF attempts >= MaxResetRequests
      THEN [Untouched EXCEPT !.err = "Too many password reset requests"]
      ELSE IF found = {}
      THEN [Untouched EXCEPT !.out = "ok", !.redis = counted]
      ELSE IF ~mailOk
      THEN [Untouched EXCEPT !.err = "Mail delivery failed"]
      ELSE [Untouched EXCEPT
              !.out = "ok", !.redis = counted,
              !.mail = [to |-> email, template |-> "reset-password",
                        otp |-> tokenString]]

\* lines 65-77: the user's rows are deleted and the new one is stored
InitiateResetRows(email, tokenString) ==
  LET attempts == RedisGet(redis, RateKey(email))
      found == {u \in users : u.email = email}
  IN  IF attempts >= MaxResetRequests \/ found = {}
      THEN passwordResetTokens
      ELSE {r \in passwordResetTokens : \A u \in found : r.userId # u.id}
             \cup {[userId |-> u.id, token |-> Hash(tokenString),
                     expiresAt |-> now + ResetExpiry, used |-> FALSE]
                    : u \in found}

InitiateReset(email, tokenString, mailOk) ==
  /\ passwordResetTokens' = InitiateResetRows(email, tokenString)
  /\ Store("initiateReset", [email |-> email],
           InitiateResetOutcome(email, tokenString, mailOk))
  /\ ResetFrame

\* lines 152-169: the unused, unexpired rows the token verifies against
MatchedTokens(tokenString) ==
  {r \in passwordResetTokens : /\ ~r.used
                               /\ r.expiresAt > now
                               /\ Argon2Verify(r.token, tokenString)}

\* mutant: the sessions are left in place
ResetTransactionKeepingSessions(matchedToken, newPassword) ==
  [users |-> {IF u.id = matchedToken.userId
              THEN [u EXCEPT !.passwordHash = Hash(newPassword)]
              ELSE u : u \in users},
   tokens |-> (passwordResetTokens \ {matchedToken})
                 \cup {[matchedToken EXCEPT !.used = TRUE]},
   sessions |-> sessions]

\* lines 179-194: the transaction
ResetTransaction(matchedToken, newPassword) ==
  [users |-> {IF u.id = matchedToken.userId
              THEN [u EXCEPT !.passwordHash = Hash(newPassword)]
              ELSE u : u \in users},
   tokens |-> (passwordResetTokens \ {matchedToken})
                 \cup {[matchedToken EXCEPT !.used = TRUE]},
   sessions |-> {r \in sessions : r.userId # matchedToken.userId}]

\* lines 150-217
ResetPassword(tokenString, newPassword, mailOk) ==
  /\ IF MatchedTokens(tokenString) = {}
     THEN /\ passwordResetTokens' = passwordResetTokens
          /\ Store("resetPassword",
                   [token |-> tokenString, newPassword |-> newPassword],
                   [Untouched EXCEPT
                      !.err = "Invalid or expired reset token"])
     ELSE \E matchedToken \in MatchedTokens(tokenString) :
            LET done == ResetTransaction(matchedToken, newPassword)
                found == {u \in done.users : u.id = matchedToken.userId}
                cleared == [Untouched EXCEPT
                              !.users = done.users,
                              !.sessions = done.sessions,
                              !.redis = IF found = {} THEN redis
                                        ELSE LET u == CHOOSE u \in found : TRUE
                                             IN  RedisDel(redis,
                                                          RateKey(u.email))]
            IN  /\ passwordResetTokens' = done.tokens
                /\ Store("resetPassword",
                         [token |-> tokenString, newPassword |-> newPassword],
                         IF found = {}
                         THEN [cleared EXCEPT !.out = "ok"]
                         ELSE IF ~mailOk
                         THEN [cleared EXCEPT !.err = "Mail delivery failed"]
                         ELSE [cleared EXCEPT
                                 !.out = "ok",
                                 !.mail = [to |-> (CHOOSE u \in found : TRUE).email,
                                           template |-> "password-changed",
                                           otp |-> NoToken]])
  /\ ResetFrame

----------------------------------------------------------------------------
(* The clock and the cache's expiry. *)

Tick ==
  /\ now < MaxTime
  /\ now' = now + 1
  /\ redis' = [k \in RedisKeys |->
                 IF redis[k].exp > now + 1 THEN redis[k] ELSE NoEntry]
  /\ loginAttempts' = <<>>
  /\ auditLogs' = <<>>
  /\ result' = Res("tick", [at |-> now + 1], Untouched)
  /\ UNCHANGED <<users, sessions, twoFactorAuths, emailOTPs, sentMail,
                 nextId, codec, failedLogins, checking, confirming,
                 verifiedSecrets, issuing,
                 registering,
                 refreshing,
                 passwordResetTokens,
                 consuming,
                 recording>>

\* the clock read in seconds: any number of seconds passes between two calls
Elapse(seconds, until) ==
  /\ now + seconds <= until
  /\ now' = now + seconds
  /\ redis' = [k \in RedisKeys |->
                 IF redis[k].exp > now + seconds THEN redis[k] ELSE NoEntry]
  /\ loginAttempts' = <<>>
  /\ auditLogs' = <<>>
  /\ result' = Res("tick", [at |-> now + seconds], Untouched)
  /\ UNCHANGED <<users, sessions, twoFactorAuths, emailOTPs, sentMail,
                 nextId, codec, failedLogins, checking, confirming,
                 verifiedSecrets, issuing,
                 registering,
                 refreshing,
                 passwordResetTokens,
                 consuming,
                 recording>>

----------------------------------------------------------------------------
(* The initial state: an empty store and cache. *)

NoCheck == [pc |-> "idle", identifier |-> "", minutes |-> 0]

NoCodec == [text |-> <<>>, key |-> 0, iv |-> 0, envelope |-> <<>>,
            decKey |-> 0, out |-> "", decrypted |-> <<>>]

Init ==
  /\ users = {}
  /\ sessions = {}
  /\ twoFactorAuths = {}
  /\ emailOTPs = {}
  /\ redis = [k \in RedisKeys |-> NoEntry]
  /\ loginAttempts = <<>>
  /\ auditLogs = <<>>
  /\ sentMail = NoMail
  /\ now = 0
  /\ nextId = [session |-> 1, otp |-> 1]
  /\ codec = NoCodec
  /\ failedLogins = [i \in Identifiers |-> [count |-> 0, last |-> 0]]
  /\ checking = NoCheck
  /\ confirming = {}
  /\ verifiedSecrets = {}
  /\ issuing = {}
  /\ registering = {}
  /\ refreshing = {}
  /\ passwordResetTokens = {}
  /\ consuming = {}
  /\ recording = {}
  /\ result = Res("init", [at |-> 0], Untouched)

----------------------------------------------------------------------------
(* Spec: registration, TOTP enrolment and login by e-mail, username or an   *)
(* unknown identifier.                                                      *)

Delivered == {<<otp, TRUE>> : otp \in OtpCodes}
FirstDraw == {RecoveryCode(c) : c \in 1..RecoveryCodeCount}
LoginMaxTime == 1

Next ==
  \/ \E dto \in RegisterDtos : Register(dto)
  \/ \E dto \in [identifier : {"a@x.com", "a", "zed"}, password : Passwords,
                 twoFactorToken : {NoToken, TotpCode(1, 0)}],
        ip \in IpAddresses :
       Login(dto, ip, Delivered)
  \/ \E u \in users, ip \in IpAddresses : Enable2FA(u, "TOTP", 1, ip)
  \/ \E u \in users, t \in {TotpCode(1, 0), TotpCode(2, 0)},
        ip \in IpAddresses :
       Verify2FASetup(u, t, FirstDraw, ip)
  \/ now < LoginMaxTime /\ Tick

Spec == Init /\ [][Next]_vars

----------------------------------------------------------------------------
(* SpecTotp: one user enrols in TOTP and logs in with time-step codes and   *)
(* recovery codes while the clock runs past the codes' window.             *)

UserA == [email |-> "a@x.com", username |-> "a", password |-> "pw1"]

NextTotp ==
  \/ Register(UserA)
  \/ \E u \in users, ip \in IpAddresses : Enable2FA(u, "TOTP", 1, ip)
  \/ \E u \in users, t \in {TotpCode(1, 0), TotpCode(2, 0)},
        ip \in IpAddresses :
       Verify2FASetup(u, t, FirstDraw, ip)
  \/ \E dto \in [identifier : {"a@x.com"}, password : Passwords,
                 twoFactorToken : {NoToken, TotpCode(1, 0), TotpCode(2, 0),
                                   RecoveryCode(1),
                                   RecoveryCode(NumRecoveryCodes)}],
        ip \in IpAddresses :
       Login(dto, ip, Delivered)
  \/ Tick

SpecTotp == Init /\ [][NextTotp]_vars

----------------------------------------------------------------------------
(* SpecRecovery: one user confirms TOTP enrolment, once or again, with any  *)
(* draw of recovery codes, and logs in with recovery codes.                 *)

NextRecovery ==
  \/ Register(UserA)
  \/ \E u \in users, ip \in IpAddresses : Enable2FA(u, "TOTP", 1, ip)
  \/ \E u \in users, codes \in RecoveryCodeDraws, ip \in IpAddresses :
       Verify2FASetup(u, TotpCode(1, 0), codes, ip)
  \/ \E dto \in [identifier : {"a@x.com"}, password : {"pw1"},
                 twoFactorToken : RecoveryCodes],
        ip \in IpAddresses :
       Login(dto, ip, Delivered)

SpecRecovery == Init /\ [][NextRecovery]_vars

----------------------------------------------------------------------------
(* SpecRegister: register calls that share an e-mail or a username, cut     *)
(* between the uniqueness check and the insert, and logins of the users.    *)

RaceDtos ==
  { [email |-> "a@x.com", username |-> "a", password |-> "pw1"],
    [email |-> "a@x.com", username |-> "a2", password |-> "pw2"],
    [email |-> "b@x.com", username |-> "a", password |-> "pw2"] }

NextRegister ==
  \/ \E dto \in RaceDtos : RegisterCheck(dto)
  \/ \E dto \in registering : RegisterCreate(dto)
  \/ \E dto \in [identifier : {"a@x.com", "a"}, password : Passwords,
                 twoFactorToken : {NoToken}],
        ip \in IpAddresses :
       Login(dto, ip, Delivered)

SpecRegister == Init /\ [][NextRegister]_vars

----------------------------------------------------------------------------
(* SpecRotation: one user's refresh tokens presented by refreshTokens calls *)
(* that run at the same time, while the clock runs.                         *)

RotationMaxTime == 1

NextRotation ==
  \/ Register(UserA)
  \/ \E call \in RefreshCalls, t \in {r.token : r \in sessions} :
       RefreshBegin(call, t)
  \/ \E c \in refreshing : RefreshFind(c)
  \/ \E c \in refreshing : RefreshDelete(c)
  \/ \E c \in refreshing : RefreshCreate(c)
  \/ now < RotationMaxTime /\ Tick

SpecRotation == Init /\ [][NextRotation]_vars

----------------------------------------------------------------------------
(* SpecAccess: one user's access tokens are validated while the user logs   *)
(* in and out, rotates the refresh token and resets the password.           *)

AccessMaxTime == 2

\* the access tokens generateTokens has signed for a user up to now, and the
\* same tokens under the refresh secret
AccessTokensFor(userId) ==
  {[secret |-> k, sub |-> userId, iat |-> t, exp |-> t + AccessExpiresIn]
     : k \in {"jwt.secret", "jwt.refreshSecret"}, t \in 0..now}

NextAccess ==
  \/ Register(UserA)
  \/ \E ip \in IpAddresses :
       Login([identifier |-> "a@x.com", password |-> "pw1",
              twoFactorToken |-> NoToken], ip, Delivered)
  \/ \E r \in sessions : RefreshTokens(r.token)
  \/ \E u \in users, t \in {NoJwt} \cup {r.token : r \in sessions} :
       Logout(u, t)
  \/ InitiateReset("a@x.com", ResetToken(1), TRUE)
  \/ ResetPassword(ResetToken(1), "pw2", TRUE)
  \/ \E t \in AccessTokensFor("u1") : ValidateTokenCall(t)
  \/ now < AccessMaxTime /\ Tick

SpecAccess == Init /\ [][NextAccess]_vars

----------------------------------------------------------------------------
(* SpecConsume: one user with confirmed TOTP whose recovery codes are       *)
(* checked by verifyRecoveryCode calls that run at the same time.           *)

NextConsume ==
  \/ Register(UserA)
  \/ \E u \in users, ip \in IpAddresses : Enable2FA(u, "TOTP", 1, ip)
  \/ \E u \in users, ip \in IpAddresses :
       /\ \A r \in TfaRows(u.id, "TOTP") : ~r.enabled
       /\ Verify2FASetup(u, TotpCode(1, 0), FirstDraw, ip)
  \/ \E call \in RecoveryCalls, u \in users, code \in RecoveryCodes :
       RecoveryRead(call, u.id, code)
  \/ \E c \in consuming : RecoveryWrite(c)

SpecConsume == Init /\ [][NextConsume]_vars

----------------------------------------------------------------------------
(* SpecLockout: one user, and a caller that repeats logins by e-mail or     *)
(* username with a right or a wrong password and counts its failures.       *)

NextLockout ==
  \/ Register(UserA)
  \/ \E dto \in [identifier : {"a@x.com", "a"}, password : Passwords,
                 twoFactorToken : {NoToken}],
        ip \in IpAddresses :
       LoginTallied(dto, ip, Delivered)
  \/ Tick

SpecLockout == Init /\ [][NextLockout]_vars

----------------------------------------------------------------------------
(* SpecSession: one user's sessions: register, login, refresh with any      *)
(* token the service can have signed for the user, logout, and the clock.   *)

\* the tokens generateTokens can have signed for a user up to now
SignedFor(userId) ==
  {[secret |-> "jwt.refreshSecret", sub |-> userId, iat |-> t,
    exp |-> t + RefreshExpiresIn] : t \in 0..now}
    \cup {[secret |-> "jwt.secret", sub |-> userId, iat |-> t,
            exp |-> t + AccessExpiresIn] : t \in 0..now}

NextSession ==
  \/ Register(UserA)
  \/ \E ip \in IpAddresses :
       Login([identifier |-> "a@x.com", password |-> "pw1",
              twoFactorToken |-> NoToken], ip, Delivered)
  \/ \E t \in SignedFor("u1") : RefreshTokens(t)
  \/ \E u \in users, t \in {NoJwt} \cup {r.token : r \in sessions} :
       Logout(u, t)
  \/ Tick

SpecSession == Init /\ [][NextSession]_vars

----------------------------------------------------------------------------
(* SpecOtp: one user with the e-mail factor: challenges are issued by login *)
(* and by resend, codes are verified by login and by disable, and the clock *)
(* runs up to the expiry of the first challenge.                            *)

MailerDraws == {<<OtpCode(1), TRUE>>, <<OtpCode(2), TRUE>>}
OtpMaxTime == 2

NextOtp ==
  \/ Register(UserA)
  \/ \E u \in users, ip \in IpAddresses : Enable2FA(u, "EMAIL", 1, ip)
  \/ \E dto \in [identifier : {"a@x.com"}, password : {"pw1"},
                 twoFactorToken : {NoToken, OtpCode(1), OtpCode(2)}],
        ip \in IpAddresses :
       Login(dto, ip, MailerDraws)
  \/ \E ip \in IpAddresses : ResendOTP("a", MailerDraws, ip)
  \/ \E u \in users, ip \in IpAddresses :
       Disable2FAHandler(u, [password |-> "pw1", method |-> "EMAIL",
                             token |-> OtpCode(1)], ip)
  \/ now < OtpMaxTime /\ Tick

SpecOtp == Init /\ [][NextOtp]_vars

----------------------------------------------------------------------------
(* SpecTracker: a caller of the lockout tracker records failures for an     *)
(* identifier, checks it and resets it.  The clock counts seconds, up to    *)
(* the time the first lock can run out, in pauses of just under and just    *)
(* over a minute.                                                           *)

Pauses == {SecondsPerMinute - 1, SecondsPerMinute + 1}

NextTracker ==
  \/ \E ip \in IpAddresses \cup {NoIp} : RecordFailure("a@x.com", ip)
  \/ \E ip \in IpAddresses \cup {NoIp} : ResetAttemptsCall("a@x.com", ip)
  \/ CheckLockoutGet("a@x.com")
  \/ CheckLockoutTtl
  \/ \E seconds \in Pauses : Elapse(seconds, LockoutSeconds)

SpecTracker == Init /\ [][NextTracker]_vars

----------------------------------------------------------------------------
(* SpecRecording: failures of one identifier are recorded by calls that run *)
(* at the same time; no key runs out and nothing resets the counter.        *)

NextRecording ==
  \/ \E call \in RecordingCalls, ip \in IpAddresses \cup {NoIp} :
       RecordGet(call, "a@x.com", ip)
  \/ \E c \in recording : RecordSet(c)

SpecRecording == Init /\ [][NextRecording]_vars

----------------------------------------------------------------------------
(* SpecRelock: failures are recorded for an identifier one call after the   *)
(* other, the lock is checked, runs out or is lifted by an administrator,   *)
(* and failures are recorded again.                                         *)

NextRelock ==
  \/ \E ip \in IpAddresses \cup {NoIp} : RecordFailure("a@x.com", ip)
  \/ UnlockAccountCall("a@x.com")
  \/ CheckLockoutGet("a@x.com")
  \/ CheckLockoutTtl
  \/ \E seconds \in Pauses : Elapse(seconds, LockoutSeconds)

SpecRelock == Init /\ [][NextRelock]_vars

----------------------------------------------------------------------------
(* SpecExpiry: one user with the e-mail factor is challenged and answers    *)
(* with the mailed code or another one, before and after the challenge's    *)
(* expiry, while the clean-up job removes expired challenges.               *)

ExpiryDraws == {<<OtpCode(1), TRUE>>}

NextExpiry ==
  \/ Register(UserA)
  \/ \E u \in users, ip \in IpAddresses : Enable2FA(u, "EMAIL", 1, ip)
  \/ \E dto \in [identifier : {"a@x.com"}, password : {"pw1"},
                 twoFactorToken : {NoToken, OtpCode(1), OtpCode(2)}],
        ip \in IpAddresses :
       Login(dto, ip, ExpiryDraws)
  \/ CleanExpired
  \/ Tick

SpecExpiry == Init /\ [][NextExpiry]_vars

----------------------------------------------------------------------------
(* SpecIssue: resend requests for one user overlap, each cut between the    *)
(* deletion of the old challenges and the creation of the new one, and the  *)
(* user answers with one of the codes.                                      *)

NextIssue ==
  \/ Register(UserA)
  \/ \E otp \in OtpCodes : IssueBegin("a", otp)
  \/ \E call \in issuing, mailOk \in BOOLEAN, ip \in IpAddresses :
       IssueEnd(call, mailOk, ip)
  \/ \E u \in users, otp \in OtpCodes, ip \in IpAddresses :
       Disable2FAHandler(u, [password |-> "pw1", method |-> "EMAIL",
                             token |-> otp], ip)

SpecIssue == Init /\ [][NextIssue]_vars

----------------------------------------------------------------------------
(* SpecReset: one user logs in with the right or a wrong password while the *)
(* caller of login records the failures with the lockout tracker, or an     *)
(* administrator unlocks the account.                                       *)

NextReset ==
  \/ Register(UserA)
  \/ \E password \in Passwords, ip \in IpAddresses :
       Login([identifier |-> "a@x.com", password |-> password,
              twoFactorToken |-> NoToken], ip, Delivered)
  \/ \E ip \in IpAddresses \cup {NoIp} : RecordFailure("a@x.com", ip)
  \/ \E ip \in IpAddresses \cup {NoIp} : ResetAttemptsCall("a@x.com", ip)
  \/ UnlockAccountCall("a@x.com")

SpecReset == Init /\ [][NextReset]_vars

----------------------------------------------------------------------------
(* SpecAccounts: registrations with every pairing of two e-mails and two     *)
(* usernames, logins of the registered users, and logouts with no token or  *)
(* with the token of any session, the caller's or another user's.           *)

AccountsMaxTime == 1

NextAccounts ==
  \/ \E dto \in [email : Emails, username : Usernames, password : {"pw1"}] :
       Register(dto)
  \/ \E dto \in [identifier : Emails, password : {"pw1"},
                 twoFactorToken : {NoToken}], ip \in IpAddresses :
       Login(dto, ip, Delivered)
  \/ \E user \in users, r \in sessions : Logout(user, r.token)
  \/ \E user \in users : Logout(user, NoJwt)
  \/ now < AccountsMaxTime /\ Tick

SpecAccounts == Init /\ [][NextAccounts]_vars

----------------------------------------------------------------------------
(* SpecResend: a caller asks for a new e-mail code for the identifier of a  *)
(* registered user and for an identifier nobody has, while the clock runs.  *)

ResendDraws == {<<OtpCode(c), ok>> : c \in 1..NumOtpCodes, ok \in BOOLEAN}

NextResend ==
  \/ Register(UserA)
  \/ \E identifier \in {"a@x.com", "a", "zed"}, ip \in IpAddresses :
       ResendOTP(identifier, ResendDraws, ip)
  \/ Tick

SpecResend == Init /\ [][NextResend]_vars

----------------------------------------------------------------------------
(* SpecSetup: one user's calls to provision a TOTP secret, to confirm it    *)
(* and to disable the factor, overlapping in every order.                   *)

NextSetup ==
  \/ Register(UserA)
  \/ \E u \in users, secret \in Secrets, ip \in IpAddresses :
       Enable2FA(u, "TOTP", secret, ip)
  \/ \E u \in users, secret \in Secrets :
       ConfirmSetupRead(u, TotpCode(secret, now))
  \/ \E call \in confirming, ip \in IpAddresses :
       ConfirmSetupWrite(call, FirstDraw, ip)
  \/ \E u \in users, password \in Passwords, ip \in IpAddresses :
       Disable2FAHandler(u, [password |-> password, method |-> "TOTP",
                             token |-> NoToken], ip)

SpecSetup == Init /\ [][NextSetup]_vars

----------------------------------------------------------------------------
(* SpecCodec: texts are sealed under a key and a drawn iv and opened with   *)
(* the same or another key.                                                 *)

NextCodec ==
  \/ \E text \in Texts, key \in Keys, iv \in Ivs : EncryptText(text, key, iv)
  \/ \E key \in Keys : DecryptEnvelope(key)

SpecCodec == Init /\ [][NextCodec]_vars

----------------------------------------------------------------------------
(* SpecBoth: one user who can enable the TOTP factor, the e-mail factor or  *)
(* both, and logs in with no token, time-step codes, recovery codes and     *)
(* e-mailed codes, all within one clock tick; the mailer may refuse a mail. *)

BothDraws == {<<OtpCode(1), TRUE>>, <<OtpCode(1), FALSE>>}

NextBoth ==
  \/ Register(UserA)
  \/ \E u \in users, m \in {"TOTP", "EMAIL"}, ip \in IpAddresses :
       Enable2FA(u, m, 1, ip)
  \/ \E u \in users, ip \in IpAddresses :
       Verify2FASetup(u, TotpCode(1, 0), FirstDraw, ip)
  \/ \E dto \in [identifier : {"a@x.com"}, password : {"pw1"},
                 twoFactorToken : {NoToken, TotpCode(1, 0), RecoveryCode(1),
                                   OtpCode(1), OtpCode(2)}],
        ip \in IpAddresses :
       Login(dto, ip, BothDraws)

SpecBoth == Init /\ [][NextBoth]_vars

----------------------------------------------------------------------------
(* SpecPasswordReset: one user logs in, rotates refresh tokens, asks for    *)
(* reset tokens and resets the password.                                    *)

ResetMaxTime == 1

NextPasswordReset ==
  \/ Register(UserA)
  \/ \E pw \in Passwords, ip \in IpAddresses :
       Login([identifier |-> "a@x.com", password |-> pw,
              twoFactorToken |-> NoToken], ip, Delivered)
  \/ \E t \in SignedFor("u1") : RefreshTokens(t)
  \/ \E t \in ResetTokens, mailOk \in BOOLEAN :
       InitiateReset("a@x.com", t, mailOk)
  \/ \E t \in ResetTokens, mailOk \in BOOLEAN :
       ResetPassword(t, "pw2", mailOk)
  \/ now < ResetMaxTime /\ Tick

SpecPasswordReset == Init /\ [][NextPasswordReset]_vars

----------------------------------------------------------------------------
(* Vocabulary of the properties. *)

CredentialsMatch(u, in) ==
  /\ u.email = in.identifier \/ u.username = in.identifier
  /\ u.passwordHash = Hash(in.password)

EnabledFactor(userId, type) ==
  \E r \in twoFactorAuths : r.userId = userId /\ r.type = type /\ r.enabled

NoSecondFactor(userId) ==
  ~EnabledFactor(userId, "TOTP") /\ ~EnabledFactor(userId, "EMAIL")

\* the token is a time-step code of the user's stored secret within the
\* verification window of the current step
ValidTimeStepCode(userId, token) ==
  /\ token.kind = "totp"
  /\ \E r \in twoFactorAuths :
        r.userId = userId /\ r.type = "TOTP" /\ r.secret = <<"sealed", token.v>>
  /\ token.w \in (now - TotpWindow)..(now + TotpWindow)

StoredRecoveryHashes(userId) ==
  UNION {r.recoveryCodes : r \in {q \in twoFactorAuths :
                                    q.userId = userId /\ q.type = "TOTP"}}

\* C1: a login with a matching identifier and password, for an identity with
\* no enabled second factor, returns a token pair and adds exactly one
\* Session row, owned by that identity and bound to the returned refresh
\* token; no other Session row is created or removed.
C1_LoginCreatesOneSession ==
  [][\A u \in users :
       (/\ result'.op = "login"
        /\ CredentialsMatch(u, result'.in)
        /\ NoSecondFactor(u.id))
       => /\ result'.out = "tokens"
          /\ result'.tokens.refreshToken # NoJwt
          /\ \E s \in sessions' \ sessions :
                /\ s.userId = u.id
                /\ s.token = result'.tokens.refreshToken
                /\ sessions' = sessions \cup {s}]_vars

C1_Witness ==
  /\ result.op = "login"
  /\ result.out = "tokens"
  /\ result.in.identifier = "a@x.com"
  /\ \E u \in users :
        /\ u.email = "a@x.com"
        /\ NoSecondFactor(u.id)
        /\ \E s \in sessions : s.userId = u.id
                                /\ s.token = result.tokens.refreshToken
        /\ \E s \in sessions : s.userId # u.id

\* C4: login ends the same way when the identifier matches no identity as
\* when it matches one whose password is wrong: the InvalidCredentials error
\* with the same message, one failed LoginAttemptRecord appended, no Session
\* created and nothing else changed.
C4_NoEnumerationAtLogin ==
  [][(/\ result'.op = "login"
      /\ \A u \in users : ~CredentialsMatch(u, result'.in))
     => /\ result'.out = "error"
        /\ result'.err = "Invalid credentials"
        /\ result'.tokens = NoTokens
        /\ result'.method = ""
        /\ loginAttempts' = <<[identifier |-> result'.in.identifier,
                               ipAddress |-> result'.in.ipAddress,
                               success |-> FALSE]>>
        /\ auditLogs' = <<>>
        /\ UNCHANGED <<users, sessions, twoFactorAuths, emailOTPs, redis,
                       sentMail>>]_vars

C4_Witness ==
  /\ result.op = "login"
  /\ result.err = "Invalid credentials"
  /\ \E u \in users : u.username = result.in.identifier
                       /\ u.passwordHash # Hash(result.in.password)
  /\ Len(loginAttempts) = 1

\* C2: after maxAttempts failed login calls for the same identifier within
\* the lockout window, the next login call for that identifier fails with
\* AccountLocked whether or not its password is correct; once the lockout
\* TTL has elapsed, a login call with correct credentials succeeds.
C2_LockoutAfterMaxAttempts ==
  [][\A i \in Identifiers :
       (/\ result'.op = "login"
        /\ result'.in.identifier = i
        /\ failedLogins[i].count >= MaxAttempts)
       => IF now < failedLogins[i].last + LockoutTtl
          THEN /\ result'.out = "error"
               /\ result'.err = "Account is temporarily locked"
               /\ sessions' = sessions
          ELSE (\E u \in users : CredentialsMatch(u, result'.in))
                 => result'.out = "tokens"]_vars

\* C3 (as the code has it): for an identity with an enabled TOTP factor and
\* no enabled EMAIL factor, login with correct credentials and no
\* second-factor token returns requires2FA with method "google", creates no
\* Session and issues no tokens; login with the same credentials and a
\* currently valid time-step code returns tokens and adds a Session.
C3_TotpChallengeGoogle ==
  [][\A u \in users :
       (/\ result'.op = "login"
        /\ CredentialsMatch(u, result'.in)
        /\ EnabledFactor(u.id, "TOTP")
        /\ ~EnabledFactor(u.id, "EMAIL"))
       => /\ result'.in.twoFactorToken = NoToken
               => /\ result'.out = "requires2FA"
                  /\ result'.method = "google"
                  /\ result'.tokens = NoTokens
                  /\ sessions' = sessions
          /\ ValidTimeStepCode(u.id, result'.in.twoFactorToken)
               => /\ result'.out = "tokens"
                  /\ result'.tokens.refreshToken # NoJwt
                  /\ \E s \in sessions' \ sessions :
                        /\ s.userId = u.id
                        /\ s.token = result'.tokens.refreshToken]_vars

\* C3 as claimed: the challenge for a TOTP identity carries method "totp"
C3_TotpChallengeTotp ==
  [][\A u \in users :
       (/\ result'.op = "login"
        /\ CredentialsMatch(u, result'.in)
        /\ EnabledFactor(u.id, "TOTP")
        /\ ~EnabledFactor(u.id, "EMAIL")
        /\ result'.in.twoFactorToken = NoToken)
       => /\ result'.out = "requires2FA"
          /\ result'.method = "totp"
          /\ result'.tokens = NoTokens
          /\ sessions' = sessions]_vars

C3_Witness ==
  /\ result.op = "login"
  /\ result.out = "requires2FA"
  /\ result.in.twoFactorToken = NoToken
  /\ result.tokens = NoTokens
  /\ \E u \in users : /\ CredentialsMatch(u, result.in)
                       /\ EnabledFactor(u.id, "TOTP")
                       /\ ~EnabledFactor(u.id, "EMAIL")

\* C5: for an identity with enabled TOTP, a login with correct credentials
\* whose second-factor token is a stored recovery code succeeds and removes
\* that code's hash from the stored set; the same login repeated as the next
\* call fails with "Invalid two-factor code" and creates no Session.
C5_RecoveryCodeSingleUse ==
  [][\A u \in users :
       (/\ result'.op = "login"
        /\ CredentialsMatch(u, result'.in)
        /\ EnabledFactor(u.id, "TOTP")
        /\ result'.in.twoFactorToken.kind = "recovery")
       => /\ Hash(result'.in.twoFactorToken) \in StoredRecoveryHashes(u.id)
               => /\ result'.out = "tokens"
                  /\ StoredRecoveryHashes(u.id)' =
                       StoredRecoveryHashes(u.id)
                         \ {Hash(result'.in.twoFactorToken)}
          /\ (/\ result.op = "login"
              /\ result.out = "tokens"
              /\ result.in = result'.in)
               => /\ result'.out = "error"
                  /\ result'.err = "Invalid two-factor code"
                  /\ result'.tokens = NoTokens
                  /\ sessions' = sessions]_vars

C5_Witness ==
  /\ result.op = "login"
  /\ result.err = "Invalid two-factor code"
  /\ result.in.twoFactorToken \in FirstDraw
  /\ \E u \in users :
        /\ CredentialsMatch(u, result.in)
        /\ EnabledFactor(u.id, "TOTP")
        /\ Hash(result.in.twoFactorToken) \notin StoredRecoveryHashes(u.id)
        /\ Cardinality(StoredRecoveryHashes(u.id)) = RecoveryCodeCount - 1

\* C6: after a successful refreshTokens call presenting refresh token T, no
\* Session row holds T, so a later refreshTokens call presenting T fails
\* with InvalidRefreshToken.
C6_RefreshRetiresToken ==
  [][(result'.op = "refreshTokens" /\ result'.out = "tokens")
     => \A s \in sessions' : s.token # result'.in.refreshToken]_vars

\* C7: refreshTokens fails with "Invalid refresh token" whenever no unexpired
\* Session row exists for the presented token and its identity, and then it
\* creates no Session, deletes no Session and returns no tokens.
C7_RefreshNeedsLiveSession ==
  [][(/\ result'.op = "refreshTokens"
      /\ ~\E s \in sessions :
            /\ s.token = result'.in.refreshToken
            /\ s.userId = result'.in.refreshToken.sub
            /\ s.expiresAt > now)
     => /\ result'.out = "error"
        /\ result'.err = "Invalid refresh token"
        /\ result'.tokens = NoTokens
        /\ sessions' = sessions]_vars

\* an unexpired, well-signed refresh token whose Session row has expired
C7_Witness ==
  /\ result.op = "refreshTokens"
  /\ result.err = "Invalid refresh token"
  /\ result.in.refreshToken.secret = "jwt.refreshSecret"
  /\ now < result.in.refreshToken.exp
  /\ \E s \in sessions : /\ s.token = result.in.refreshToken
                          /\ s.expiresAt <= now

\* the step runs OtpService.verifyOTP for user u with the submitted token
VerifiesOtp(u) ==
  \/ /\ result'.op = "login"
     /\ CredentialsMatch(u, result'.in)
     /\ EnabledFactor(u.id, "EMAIL")
     /\ ~EnabledFactor(u.id, "TOTP")
     /\ result'.in.twoFactorToken # NoToken
  \/ /\ result'.op = "disable2FA"
     /\ result'.in.userId = u.id
     /\ u.passwordHash = Hash(result'.in.password)
     /\ result'.in.method = "EMAIL"
     /\ result'.in.token # NoToken

SubmittedOtp == IF result'.op = "login" THEN result'.in.twoFactorToken
                ELSE result'.in.token

VerifiedOtp ==
  \/ result'.op = "login" /\ result'.out = "tokens"
  \/ result'.op = "disable2FA" /\ result'.out = "ok"

\* C8: a newly issued e-mail OTP challenge is the only challenge of its
\* identity, and a verify succeeds only for the code of the most recently
\* issued challenge of the identity: the code of an earlier challenge no
\* longer verifies.
C8_NewChallengeSupersedes ==
  [][/\ \A r \in emailOTPs' :
          r.id \notin {q.id : q \in emailOTPs}
            => \A q \in emailOTPs' : q.userId = r.userId => q = r
     /\ \A u \in users :
          (VerifiesOtp(u) /\ VerifiedOtp)
            => \E r \in emailOTPs :
                  /\ r.userId = u.id
                  /\ r.otpHash = Hash(SubmittedOtp)
                  /\ \A q \in emailOTPs : q.userId = u.id => q.id <= r.id]_vars

\* a code other than the one of the re-issued challenge was refused
C8_Witness ==
  /\ result.op = "login"
  /\ result.err = "Invalid OTP"
  /\ \E u \in users :
        /\ CredentialsMatch(u, result.in)
        /\ \E r \in emailOTPs :
              /\ r.userId = u.id
              /\ r.id > 1
              /\ r.otpHash # Hash(result.in.twoFactorToken)
              /\ r.attempts = 1
              /\ \A q \in emailOTPs : q.userId = u.id => q = r

\* C9: once the OTP attempt counter of an identity is at or above
\* maxOTPAttempts, every verify call for the identity fails with "Too many
\* verification attempts", whatever the submitted code, and leaves the
\* challenges, their attempt counts and the counters unchanged.
C9_TooManyAttemptsFirst ==
  [][\A u \in users :
       (/\ VerifiesOtp(u)
        /\ RedisGet(redis, <<"otp:attempts", u.id>>) >= MaxOTPAttempts)
       => /\ result'.out = "error"
          /\ result'.err = "Too many verification attempts"
          /\ result'.tokens = NoTokens
          /\ UNCHANGED <<emailOTPs, redis, sessions, twoFactorAuths>>]_vars

\* the submitted code was the right one for a live challenge
C9_Witness ==
  /\ result.op = "login"
  /\ result.err = "Too many verification attempts"
  /\ \E u \in users :
        /\ CredentialsMatch(u, result.in)
        /\ RedisGet(redis, <<"otp:attempts", u.id>>) >= MaxOTPAttempts
        /\ \E r \in emailOTPs :
              /\ r.userId = u.id
              /\ r.expiresAt > now
              /\ r.otpHash = Hash(result.in.twoFactorToken)

\* C10: for every plaintext, the empty one included, and every key,
\* decrypt(encrypt(plaintext, key), key) returns the original plaintext.
C10_CodecRoundTrip ==
  (codec.out # "" /\ codec.decKey = codec.key)
    => (codec.out = "ok" /\ codec.decrypted = codec.text)

\* the round trip of every plaintext of at least one byte
C10_NonEmptyRoundTrip ==
  (codec.out # "" /\ codec.decKey = codec.key /\ codec.text # <<>>)
    => (codec.out = "ok" /\ codec.decrypted = codec.text)

\* the login step is made with u's credentials while u has both factors
BothFactorsLogin(u) ==
  /\ result'.op = "login"
  /\ CredentialsMatch(u, result'.in)
  /\ EnabledFactor(u.id, "EMAIL")
  /\ EnabledFactor(u.id, "TOTP")

\* the step stored a new challenge for u, the only one of u, and mailed its
\* code
IssuedChallenge(u) ==
  /\ \E r \in emailOTPs' :
        /\ r.id \notin {q.id : q \in emailOTPs}
        /\ r.userId = u.id
        /\ r.otpHash = Hash(sentMail'.otp)
        /\ \A q \in emailOTPs' : q.userId = u.id => q = r
  /\ sentMail'.to = u.email

\* C11 (as the code has it): when an identity has both an EMAIL and a TOTP
\* factor enabled, login with correct credentials and no second-factor token
\* never creates a Session and never answers with the TOTP method; it issues
\* an e-mail OTP challenge and returns requires2FA with method "email"
\* unless the resend limit is reached or the mailer refuses the mail, and
\* then it fails with that error.
C11_EmailChallengeUnlessRefused ==
  [][\A u \in users :
       (BothFactorsLogin(u) /\ result'.in.twoFactorToken = NoToken)
       => /\ sessions' = sessions
          /\ result'.tokens = NoTokens
          /\ result'.method \notin {"google", "totp"}
          /\ \/ /\ result'.out = "requires2FA"
                /\ result'.method = "email"
                /\ IssuedChallenge(u)
             \/ /\ result'.out = "error"
                /\ result'.err = "Too many OTP requests"
                /\ RedisGet(redis, <<"otp:resend", u.id>>)
                     >= MaxResendAttempts
                /\ emailOTPs' = emailOTPs
             \/ /\ result'.out = "error"
                /\ result'.err = "Mail delivery failed"
          /\ RedisGet(redis, <<"otp:resend", u.id>>) >= MaxResendAttempts
               => result'.err = "Too many OTP requests"]_vars

\* C11 as claimed: every such login issues the challenge and returns
\* requires2FA with method "email", without creating a Session
C11_EmailChallengeAlways ==
  [][\A u \in users :
       (BothFactorsLogin(u) /\ result'.in.twoFactorToken = NoToken)
       => /\ result'.out = "requires2FA"
          /\ result'.method = "email"
          /\ IssuedChallenge(u)
          /\ sessions' = sessions]_vars

C11_Witness ==
  /\ result.op = "login"
  /\ result.out = "requires2FA"
  /\ result.method = "email"
  /\ result.in.twoFactorToken = NoToken
  /\ \E u \in users :
        /\ CredentialsMatch(u, result.in)
        /\ EnabledFactor(u.id, "EMAIL")
        /\ EnabledFactor(u.id, "TOTP")
        /\ \E r \in emailOTPs : r.userId = u.id /\ r.createdAt = now

\* the token is the code last mailed to u, that of u's newest live challenge
LiveEmailedCode(u, token) ==
  /\ sentMail.to = u.email
  /\ sentMail.otp = token
  /\ \E r \in emailOTPs :
     /\ r.userId = u.id
     /\ r.expiresAt > now
     /\ r.otpHash = Hash(token)
     /\ \A q \in emailOTPs : q.userId = u.id => q.id <= r.id

\* C12: for an identity with both factors enabled, a submitted token that is
\* neither a valid TOTP code nor a stored recovery code is then tried as an
\* e-mail OTP, so the code of the live e-mailed challenge completes the login
\* and yields tokens.
C12_EmailCodeAcceptedWithBoth ==
  [][\A u \in users :
       (/\ BothFactorsLogin(u)
        /\ ~ValidTimeStepCode(u.id, result'.in.twoFactorToken)
        /\ Hash(result'.in.twoFactorToken) \notin StoredRecoveryHashes(u.id)
        /\ LiveEmailedCode(u, result'.in.twoFactorToken)
        /\ RedisGet(redis, <<"otp:attempts", u.id>>) < MaxOTPAttempts)
       => /\ result'.out = "tokens"
          /\ result'.tokens.refreshToken # NoJwt]_vars

\* C13: every login call that submits a second-factor token for an identity
\* with an enabled factor appends an AuditEvent for the attempt carrying the
\* method and the success flag, and when no method accepts the token the
\* call fails with "Invalid two-factor code", for a wrong e-mail OTP code as
\* for a wrong TOTP or recovery code.
C13_EveryAttemptAudited ==
  [][\A u \in users :
       (/\ result'.op = "login"
        /\ CredentialsMatch(u, result'.in)
        /\ ~NoSecondFactor(u.id)
        /\ result'.in.twoFactorToken # NoToken)
       => /\ auditLogs' # <<>>
          /\ \E i \in DOMAIN auditLogs' :
                /\ auditLogs'[i].userId = u.id
                /\ auditLogs'[i].method \in {"google", "email"}
                /\ auditLogs'[i].success = (result'.out = "tokens")
          /\ result'.out = "error"
               => result'.err = "Invalid two-factor code"]_vars

\* the identities a registration collides with
Conflicting(dto) ==
  {u \in users : u.email = dto.email \/ u.username = dto.username}

ConflictMessage(u, dto) ==
  IF u.email = dto.email THEN "Email already exists"
                         ELSE "Username already exists"

\* C15: a register call whose e-mail or username an existing identity has
\* fails with a conflict error and creates no identity, credential or
\* session; the message names the e-mail when the matched identity has the
\* submitted e-mail and the username otherwise.
C15_RegisterConflict ==
  [][(result'.op = "register" /\ Conflicting(result'.in) # {})
       => /\ result'.out = "error"
          /\ result'.tokens = NoTokens
          /\ users' = users
          /\ sessions' = sessions
          /\ \E u \in Conflicting(result'.in) :
                result'.err = ConflictMessage(u, result'.in)]_vars

\* a registration refused for its username alone
C15_Witness ==
  /\ result.op = "register"
  /\ result.err = "Username already exists"
  /\ \E u \in users : u.username = result.in.username
  /\ \A u \in users : u.email # result.in.email

\* C16: a register call with an unused e-mail and username creates exactly
\* one identity with role USER and no e-mail verification time, its one
\* credential, and exactly one session, bound to the returned refresh token.
C16_RegisterCreates ==
  [][(result'.op = "register" /\ Conflicting(result'.in) = {})
       => /\ result'.out = "tokens"
          /\ \E u \in users' \ users :
                /\ users' = users \cup {u}
                /\ u.email = result'.in.email
                /\ u.username = result'.in.username
                /\ u.role = "USER"
                /\ u.emailVerifiedAt = -1
                /\ u.passwordHash = Hash(result'.in.password)
                /\ \A v \in users : v.id # u.id
                /\ \E r \in sessions' \ sessions :
                      /\ sessions' = sessions \cup {r}
                      /\ r.userId = u.id
                      /\ r.token = result'.tokens.refreshToken]_vars

\* the second identity has just been registered
C16_Witness ==
  /\ result.op = "register"
  /\ result.out = "tokens"
  /\ Cardinality(users) = 2
  /\ \E r \in sessions : r.token = result.tokens.refreshToken

SessionsOf(userId) == {r \in sessions : r.userId = userId}

\* C17: logout with a refresh token T deletes the caller's sessions whose
\* token is T and no other session; logout without a token deletes every
\* session of the caller and none of another identity.
C17_LogoutFrame ==
  [][result'.op = "logout"
       => /\ users' = users
          /\ sessions' =
               IF result'.in.refreshToken # NoJwt
               THEN sessions \ {r \in SessionsOf(result'.in.userId) :
                                  r.token = result'.in.refreshToken}
               ELSE sessions \ SessionsOf(result'.in.userId)]_vars

\* a logout with one of the caller's tokens has removed that session and
\* left the caller's other session and another identity's session
C17_Witness ==
  /\ result.op = "logout"
  /\ result.in.refreshToken # NoJwt
  /\ result.in.refreshToken.sub = result.in.userId
  /\ \A r \in sessions : r.token # result.in.refreshToken
  /\ SessionsOf(result.in.userId) # {}
  /\ sessions \ SessionsOf(result.in.userId) # {}

\* C18: a request for a new e-mail code that is answered with success is
\* answered with the same generic response whether or not the identifier
\* matches an account.
C18_ResendAnswersAlike ==
  [][(result'.op = "resendOTP" /\ result'.out = "ok")
       => result'.msg = "If the account exists, an OTP has been sent"]_vars

\* C19: in every reachable state, however provision, confirmSetup and
\* disable calls of an identity overlap, an enabled TOTP factor holds a
\* secret that a setup code was verified against by confirmSetup.
C19_EnabledSecretVerified ==
  \A r \in twoFactorAuths :
     (r.type = "TOTP" /\ r.enabled)
       => <<r.userId, r.secret>> \in verifiedSecrets

\* C14: after every login that passes every check and issues tokens, the
\* lockout tracker's failure counter of the submitted identifier, and the
\* one of the origin address, are cleared.
C14_LoginClearsFailureCounters ==
  [][(result'.op = "login" /\ result'.out = "tokens")
       => /\ RedisGet(redis', UserKey(result'.in.identifier)) = 0
          /\ RedisGet(redis', IpKey(result'.in.ipAddress)) = 0]_vars

\* C20: a checkLockout call that fails with AccountLocked carries a number of
\* remaining minutes between 1 and the lockout duration, also when the lock
\* flag runs out between the read of the flag and the read of its ttl.
C20_RemainingMinutesInRange ==
  checking.pc = "thrown" => checking.minutes \in 1..LockoutTtl

\* the tracker's state of an identifier
IsLocked(r, identifier) == RedisGet(r, LockedKey(identifier)) # 0
FailureCount(r, identifier) == RedisGet(r, UserKey(identifier))

\* C21: a recordFailure call raises the identifier's count by one; while the
\* count stays below maxAttempts the call leaves the identifier as it was
\* (unlocked if it was), and the call that brings the count to maxAttempts
\* sets the lock flag with the lockout duration as its ttl.  checkLockout
\* returns normally exactly when the flag is not set.
C21_LockedAtMaxAttempts ==
  /\ [][result'.op = "recordFailedAttempt"
          => LET id == result'.in.identifier
                 n == FailureCount(redis', id)
             IN  /\ n = FailureCount(redis, id) + 1
                 /\ n < MaxAttempts
                      => redis'[LockedKey(id)] = redis[LockedKey(id)]
                 /\ n >= MaxAttempts
                      => redis'[LockedKey(id)] =
                           [val |-> Locked,
                            exp |-> now + LockoutTtl * SecondsPerMinute]]_vars
  /\ [][result'.op = "checkLockout"
          => IF checking.pc = "ttl"
             THEN result'.err = "Account is temporarily locked"
             ELSE result'.out = IF IsLocked(redis, result'.in.identifier)
                                THEN "pending" ELSE "ok"]_vars
  /\ [](\A id \in Identifiers :
          IsLocked(redis, id) => FailureCount(redis, id) >= MaxAttempts)

\* the failure that reached maxAttempts has been recorded and a check has
\* failed since
C21_Witness ==
  /\ FailureCount(redis, "a@x.com") = MaxAttempts
  /\ redis[LockedKey("a@x.com")].exp = now + LockoutTtl * SecondsPerMinute
  /\ checking.pc = "thrown"
  /\ checking.identifier = "a@x.com"

\* C22: unlockAccount leaves the identifier unlocked with a failure count
\* of zero, and so does the running out of the lock's ttl; from there
\* checkLockout returns normally and the identifier is locked again only
\* when maxAttempts failures have been counted anew.
C22_UnlockedStartsAfresh ==
  /\ [][result'.op = "unlockAccount"
          => /\ ~IsLocked(redis', result'.in.identifier)
             /\ FailureCount(redis', result'.in.identifier) = 0]_vars
  /\ [][\A id \in Identifiers :
           (/\ result'.op = "tick"
            /\ IsLocked(redis, id)
            /\ redis'[LockedKey(id)] = NoEntry)
           => redis'[UserKey(id)] = NoEntry]_vars
  /\ [][(/\ result'.op = "checkLockout"
          /\ checking.pc # "ttl"
          /\ ~IsLocked(redis, result'.in.identifier))
          => result'.out = "ok"]_vars
  /\ [][\A id \in Identifiers :
           (~IsLocked(redis, id) /\ IsLocked(redis', id))
           => /\ result'.op = "recordFailedAttempt"
              /\ FailureCount(redis', id) >= MaxAttempts
              /\ FailureCount(redis', id) = FailureCount(redis, id) + 1]_vars

\* a lock that a check has run into has run out, and the count with it
C22_Witness ==
  /\ result.op = "tick"
  /\ checking.pc = "thrown"
  /\ checking.identifier = "a@x.com"
  /\ ~IsLocked(redis, "a@x.com")
  /\ FailureCount(redis, "a@x.com") = 0

\* the step runs OtpService.generateAndSendOTP for user u
IssuesOtp(u) ==
  \/ /\ result'.op = "resendOTP"
     /\ u \in FindUserByIdentifier(result'.in.identifier)
  \/ /\ result'.op = "login"
     /\ CredentialsMatch(u, result'.in)
     /\ EnabledFactor(u.id, "EMAIL")
     /\ result'.in.twoFactorToken = NoToken

\* C23: an issue for an identity whose resend counter is at or above the
\* maximum fails with "Too many OTP requests", leaves the challenges, the
\* resend counter and the attempt counter as they are and sends no mail;
\* every successful issue raises the resend counter by exactly one.
C23_ResendLimit ==
  [][\A u \in users :
       IssuesOtp(u)
       => IF RedisGet(redis, ResendKey(u.id)) >= MaxResendAttempts
          THEN /\ result'.out = "error"
               /\ result'.err = "Too many OTP requests"
               /\ UNCHANGED <<emailOTPs, redis, sentMail, nextId>>
          ELSE result'.out # "error"
                 => RedisGet(redis', ResendKey(u.id))
                      = RedisGet(redis, ResendKey(u.id)) + 1]_vars

\* a request was refused at the limit while a challenge was live
C23_Witness ==
  /\ result.op \in {"login", "resendOTP"}
  /\ result.err = "Too many OTP requests"
  /\ \E u \in users :
        /\ RedisGet(redis, ResendKey(u.id)) = MaxResendAttempts
        /\ LiveOtps(u.id) # {}

\* the verify of this step finds a live challenge of u, having passed the
\* attempt limit
FindsChallenge(u) ==
  /\ VerifiesOtp(u)
  /\ RedisGet(redis, AttemptKey(u.id)) < MaxOTPAttempts
  /\ NewestOtps(u.id) # {}

CodeMatches(u) ==
  \E r \in NewestOtps(u.id) : r.otpHash = Hash(SubmittedOtp)

\* a verify that finds a live challenge and a code that does not match it
\* fails with "Invalid OTP", keeps the challenge, and raises the challenge's
\* attempt count and the cached attempt counter by one each
WrongCodeCounted ==
  \A u \in users :
     (FindsChallenge(u) /\ ~CodeMatches(u))
     => /\ result'.out = "error"
        /\ result'.err = "Invalid OTP"
        /\ \E r \in NewestOtps(u.id) :
              emailOTPs' = (emailOTPs \ {r})
                             \cup {[r EXCEPT !.attempts = r.attempts + 1]}
        /\ RedisGet(redis', AttemptKey(u.id))
             = RedisGet(redis, AttemptKey(u.id)) + 1

\* the step follows a verify refused for a wrong code and submits the right
\* code of the challenge, which is still live
RightCodeAfterWrong(u) ==
  /\ result.op \in {"login", "disable2FA"}
  /\ result.err = "Invalid OTP"
  /\ VerifiesOtp(u)
  /\ NewestOtps(u.id) # {}
  /\ CodeMatches(u)

\* C24 (as the code has it): the wrong code is counted on the challenge and
\* in the cache and the challenge stays stored; the right code is accepted
\* afterwards as long as the cached attempt counter is below the maximum.
C24_WrongCodeCountedWithinLimit ==
  [][/\ WrongCodeCounted
     /\ \A u \in users :
          (/\ RightCodeAfterWrong(u)
           /\ RedisGet(redis, AttemptKey(u.id)) < MaxOTPAttempts)
          => VerifiedOtp]_vars

\* C24: a verify that finds a live challenge and a non-matching code fails
\* with "Invalid OTP", raises both attempt counters by one and leaves the
\* challenge stored and still verifiable with the right code.
C24_WrongCodeStillVerifiable ==
  [][/\ WrongCodeCounted
     /\ \A u \in users : RightCodeAfterWrong(u) => VerifiedOtp]_vars

\* a wrong code was refused and counted, and the challenge is still there
C24_Witness ==
  /\ result.op = "login"
  /\ result.err = "Invalid OTP"
  /\ \E u \in users :
        /\ CredentialsMatch(u, result.in)
        /\ RedisGet(redis, AttemptKey(u.id)) = 1
        /\ \E r \in LiveOtps(u.id) :
              /\ r.attempts = 1
              /\ r.otpHash # Hash(result.in.twoFactorToken)

\* the last handler verified an e-mail code of u with success
JustVerified(u) ==
  \/ /\ result.op = "login"
     /\ result.out = "tokens"
     /\ result.in.twoFactorToken # NoToken
     /\ CredentialsMatch(u, result.in)
     /\ EnabledFactor(u.id, "EMAIL")
     /\ ~EnabledFactor(u.id, "TOTP")
  \/ /\ result.op = "disable2FA"
     /\ result.out = "ok"
     /\ result.in.userId = u.id
     /\ result.in.method = "EMAIL"
     /\ result.in.token # NoToken

LastSubmittedOtp == IF result.op = "login" THEN result.in.twoFactorToken
                    ELSE result.in.token

\* C25: a verify with the matching code succeeds, deletes the challenge and
\* clears the attempt counter and the resend counter of the identity; a
\* second verify with the same code then fails with "OTP expired or not
\* found" and changes nothing.
C25_CodeAcceptedOnce ==
  [][\A u \in users :
       /\ (FindsChallenge(u) /\ CodeMatches(u))
          => /\ VerifiedOtp
             /\ \E r \in NewestOtps(u.id) :
                   /\ r.otpHash = Hash(SubmittedOtp)
                   /\ emailOTPs' = emailOTPs \ {r}
             /\ RedisGet(redis', AttemptKey(u.id)) = 0
             /\ RedisGet(redis', ResendKey(u.id)) = 0
       /\ (JustVerified(u) /\ VerifiesOtp(u)
             /\ SubmittedOtp = LastSubmittedOtp)
          => /\ result'.out = "error"
             /\ result'.err = "OTP expired or not found"
             /\ UNCHANGED <<emailOTPs, redis, sessions>>]_vars

\* the code mailed last was submitted before its expiry and found no
\* challenge: it had been accepted once
C25_Witness ==
  /\ result.op = "login"
  /\ result.err = "OTP expired or not found"
  /\ result.in.twoFactorToken = sentMail.otp
  /\ now < OtpExpiry
  /\ sessions # {}
  /\ \E u \in users :
        /\ CredentialsMatch(u, result.in)
        /\ RedisGet(redis, ResendKey(u.id)) = 0

\* the verify of this step is made with the code mailed last while no
\* challenge of u is live: the challenge has expired, or is gone
AnswersExpired(u) ==
  /\ VerifiesOtp(u)
  /\ \A r \in emailOTPs : r.userId = u.id => r.expiresAt <= now
  /\ sentMail.to = u.email
  /\ SubmittedOtp = sentMail.otp

\* C26 (as the code has it): a challenge whose expiry has passed is never
\* accepted, whether its row is still stored or not; the verify fails with
\* "OTP expired or not found", or with "Too many verification attempts"
\* when the attempt counter stands at the maximum, and changes neither the
\* challenge's attempt count nor the cached attempt counter.
C26_ExpiredRefused ==
  [][\A u \in users :
       AnswersExpired(u)
       => /\ result'.out = "error"
          /\ result'.tokens = NoTokens
          /\ result'.err =
               IF RedisGet(redis, AttemptKey(u.id)) >= MaxOTPAttempts
               THEN "Too many verification attempts"
               ELSE "OTP expired or not found"
          /\ UNCHANGED <<emailOTPs, redis, sessions>>]_vars

\* C26: a verify with the correct code of a challenge whose expiry has
\* passed fails with "OTP expired or not found" and changes neither
\* attempt counter.
C26_ExpiredNotFound ==
  [][\A u \in users :
       AnswersExpired(u)
       => /\ result'.out = "error"
          /\ result'.err = "OTP expired or not found"
          /\ UNCHANGED <<emailOTPs, redis, sessions>>]_vars

\* the right code of a challenge that is stored and past its expiry was
\* refused
C26_Witness ==
  /\ result.op = "login"
  /\ result.err = "OTP expired or not found"
  /\ \E r \in emailOTPs :
        /\ r.expiresAt <= now
        /\ r.otpHash = Hash(result.in.twoFactorToken)
        /\ r.attempts = 0

\* C27: when the mailer refuses the OTP mail, the issue fails with the
\* mailer's error, and a login that triggered it returns neither tokens nor
\* a 2FA-required response; the challenge stored for the mail is left
\* behind as the only challenge of the identity and the resend counter is
\* not raised.  An issue below the resend limit fails for no other reason.
C27_MailFailurePropagates ==
  [][\A u \in users :
       (IssuesOtp(u) /\ ~ResendLimitReached(RedisGet(redis, ResendKey(u.id))))
       => /\ result'.out = "error" => result'.err = "Mail delivery failed"
          /\ result'.err = "Mail delivery failed"
             => /\ result'.out = "error"
                /\ result'.tokens = NoTokens
                /\ result'.method = ""
                /\ sessions' = sessions
                /\ sentMail' = sentMail
                /\ redis' = redis
                /\ \E r \in emailOTPs' :
                      /\ r.id \notin {q.id : q \in emailOTPs}
                      /\ r.userId = u.id
                      /\ r.expiresAt = now + OtpExpiry
                      /\ \A q \in emailOTPs' : q.userId = u.id => q = r]_vars

\* a login was refused by the mailer; the challenge it stored is there and
\* no resend is counted
C27_Witness ==
  /\ result.op = "login"
  /\ result.err = "Mail delivery failed"
  /\ \E u \in users :
        /\ CredentialsMatch(u, result.in)
        /\ RedisGet(redis, ResendKey(u.id)) = 0
        /\ \E r \in LiveOtps(u.id) : r.id = nextId.otp - 1

\* C28: in every reachable state, also those reached by two issue calls of
\* one identity that overlap at their awaits, an identity has at most one
\* live challenge, and after a successful verify it has none.
C28_OneLiveChallenge ==
  /\ [](\A userId \in UserIds : Cardinality(LiveOtps(userId)) <= 1)
  /\ [][\A u \in users :
          (VerifiesOtp(u) /\ VerifiedOtp) => LiveOtps(u.id)' = {}]_vars

\* C29: verify2FASetup fails with "2FA setup not initiated" when the identity
\* has no TOTP row and with "Invalid verification code" when the submitted
\* code is not a time-step code of the stored secret within the window; in
\* both cases no second-factor row changes: the enabled flag and the stored
\* recovery-code hashes stay as they were.
C29_FailedSetupChangesNothing ==
  [][\A u \in users :
       (/\ result'.op = "verify2FASetup"
        /\ result'.in.userId = u.id
        /\ ~ValidTimeStepCode(u.id, result'.in.token))
       => /\ result'.out = "error"
          /\ result'.err = IF TfaRows(u.id, "TOTP") = {}
                           THEN "2FA setup not initiated"
                           ELSE "Invalid verification code"
          /\ result'.codes = {}
          /\ twoFactorAuths' = twoFactorAuths]_vars

C29_Witness ==
  /\ result.op = "verify2FASetup"
  /\ result.err = "Invalid verification code"
  /\ result.in.token = TotpCode(1, 0)
  /\ \E u \in users :
        /\ result.in.userId = u.id
        /\ EnabledFactor(u.id, "TOTP")
        /\ StoredRecoveryHashes(u.id) # {}
        /\ TfaRows(u.id, "TOTP") = {r \in twoFactorAuths :
                                      r.secret = SealSecret(1)}

\* C30: a successful verify2FASetup leaves the TOTP factor enabled, returns
\* RecoveryCodeCount recovery codes and stores exactly their hashes in place
\* of whatever was stored before. While the factor stays enabled each returned
\* code is accepted once: it is accepted by the login that follows the
\* confirmation, a login with a recovery code is accepted exactly when the
\* code's hash is stored, and an accepted code's hash is removed, no other.
C30_ConfirmedSetupIssuesCodes ==
  /\ [][\A u \in users :
          (/\ result'.op = "verify2FASetup"
           /\ result'.in.userId = u.id
           /\ result'.out = "ok")
          => /\ EnabledFactor(u.id, "TOTP")'
             /\ result'.codes \subseteq RecoveryCodes
             /\ Cardinality(result'.codes) = RecoveryCodeCount
             /\ StoredRecoveryHashes(u.id)' =
                  {Hash(c) : c \in result'.codes}
             /\ Cardinality(StoredRecoveryHashes(u.id)') =
                  RecoveryCodeCount]_vars
  /\ [][\A u \in users :
          (/\ result'.op = "login"
           /\ CredentialsMatch(u, result'.in)
           /\ EnabledFactor(u.id, "TOTP")
           /\ result'.in.twoFactorToken.kind = "recovery")
          => /\ (/\ result.op = "verify2FASetup"
                 /\ result.out = "ok"
                 /\ result'.in.twoFactorToken \in result.codes)
                  => result'.out = "tokens"
             /\ result'.out = "tokens"
                  <=> Hash(result'.in.twoFactorToken)
                        \in StoredRecoveryHashes(u.id)
             /\ StoredRecoveryHashes(u.id)' =
                  IF result'.out = "tokens"
                  THEN StoredRecoveryHashes(u.id)
                         \ {Hash(result'.in.twoFactorToken)}
                  ELSE StoredRecoveryHashes(u.id)]_vars

C30_Witness ==
  /\ result.op = "verify2FASetup"
  /\ result.out = "ok"
  /\ result.codes # FirstDraw
  /\ Cardinality(result.codes) = RecoveryCodeCount
  /\ \E u \in users :
        /\ result.in.userId = u.id
        /\ EnabledFactor(u.id, "TOTP")
        /\ StoredRecoveryHashes(u.id) = {Hash(c) : c \in result.codes}

\* C31: when two register calls with the same e-mail or the same username
\* have both passed the uniqueness check, one user is created: no two users
\* share an e-mail or a username, and the call whose insert comes second
\* fails with a conflict error, creating no user and no session.
C31_RegisterRaceConflict ==
  /\ [](\A u1, u2 \in users :
          (u1.email = u2.email \/ u1.username = u2.username) => u1 = u2)
  /\ [][\A dto \in registering :
          (/\ registering' = registering \ {dto}
           /\ result'.op = "register"
           /\ result'.in = dto
           /\ \E u \in users : u.email = dto.email
                                \/ u.username = dto.username)
          => /\ users' = users
             /\ sessions' = sessions
             /\ result'.tokens = NoTokens
             /\ result'.err \in {"Email already exists",
                                 "Username already exists"}]_vars

\* C32: of two refreshTokens calls that present the same refresh token and
\* run at the same time at most one returns tokens, so at most one new
\* Session row results from the rotation: a call returns tokens only if no
\* call presenting the same token returned tokens while it was under way,
\* and the Session row it read is gone before its new row is created.
C32_OneRotationWins ==
  [][\A c \in refreshing :
       (/\ c.pc = "create"
        /\ \A d \in refreshing' : d.call # c.call
        /\ result'.op = "refreshTokens"
        /\ result'.out = "tokens")
       => /\ ~c.beaten
          /\ \A s \in sessions : s.id # c.sessionId
          /\ Cardinality(sessions') = Cardinality(sessions) + 1]_vars

C34_ConsumedCodeStaysConsumed ==
  [][\A u \in users :
       (result'.op = "verifyRecoveryCode" /\ result'.in.userId = u.id)
       => /\ StoredRecoveryHashes(u.id)' \subseteq StoredRecoveryHashes(u.id)
          /\ result'.out = "true"
               => Hash(result'.in.code) \in StoredRecoveryHashes(u.id)]_vars

\* the user whose reset token the last call, a successful resetPassword, used
ResetFor(u) ==
  /\ result.op = "resetPassword"
  /\ result.out = "ok"
  /\ \E r \in passwordResetTokens :
        r.userId = u.id /\ r.used /\ r.token = Hash(result.in.token)

SecondFactorPasses(u, token) ==
  IF EnabledFactor(u.id, "TOTP")
  THEN \/ ValidTimeStepCode(u.id, token)
       \/ Hash(token) \in StoredRecoveryHashes(u.id)
  ELSE \E r \in emailOTPs : /\ r.userId = u.id
                             /\ r.expiresAt > now
                             /\ r.otpHash = Hash(token)

\* C36: a login creates a Session row only when it returns tokens, and for a
\* user with an enabled second factor it returns tokens and creates a
\* Session only when the call carries a second-factor token that the
\* second-factor check accepts: with the password alone it never does.
C36_TokensNeedSecondFactor ==
  [][result'.op = "login"
     => /\ sessions' # sessions => result'.out = "tokens"
        /\ \A u \in users :
              (/\ CredentialsMatch(u, result'.in)
               /\ ~NoSecondFactor(u.id)
               /\ result'.out = "tokens" \/ sessions' # sessions)
              => /\ result'.in.twoFactorToken # NoToken
                 /\ SecondFactorPasses(u, result'.in.twoFactorToken)]_vars

\* a login with the password alone, for a user with both factors enabled,
\* that ends without tokens
C36_Witness ==
  /\ result.op = "login"
  /\ result.in.twoFactorToken = NoToken
  /\ result.out # "tokens"
  /\ result.tokens = NoTokens
  /\ \E u \in users :
        /\ CredentialsMatch(u, result.in)
        /\ EnabledFactor(u.id, "TOTP")
        /\ EnabledFactor(u.id, "EMAIL")
        /\ \E s \in sessions : s.userId = u.id

\* C37: under every interleaving of recordFailedAttempt calls for one
\* identifier, with no key running out and no reset or unlock, the
\* identifier's failure counter never goes down.
C37_CounterNeverDecreases ==
  [][\A identifier \in Identifiers :
       FailureCount(redis', identifier) >= FailureCount(redis, identifier)]_vars

\* C38: enable2FA with method TOTP for a user whose TOTP factor is enabled
\* leaves the factor enabled and its confirmed secret stored, so that a login
\* of the user with the password alone still ends with the 2FA-required
\* answer.
C38_ProvisionKeepsEnabledFactor ==
  [][\A u \in users :
       (/\ result'.op = "enable2FA"
        /\ result'.in.userId = u.id
        /\ result'.in.method = "TOTP"
        /\ EnabledFactor(u.id, "TOTP"))
       => /\ EnabledFactor(u.id, "TOTP")'
          /\ \A r \in TfaRows(u.id, "TOTP") :
                \E q \in twoFactorAuths' :
                   /\ q.userId = r.userId
                   /\ q.type = r.type
                   /\ q.secret = r.secret
                   /\ q.enabled]_vars

\* the last call issued a new challenge for u and mailed its code
JustIssued(u) ==
  /\ \/ /\ result.op = "resendOTP"
        /\ result.out = "ok"
        /\ u \in FindUserByIdentifier(result.in.identifier)
     \/ /\ result.op = "login"
        /\ result.out = "requires2FA"
        /\ result.method = "email"
        /\ CredentialsMatch(u, result.in)
  /\ sentMail.to = u.email

\* C39: once the attempt counter of a user has reached the maximum, so that
\* verify fails with "Too many verification attempts", a new challenge makes
\* verifying possible again: the verify that follows the issue and submits
\* the new challenge's code succeeds, with the counter's key still alive.
C39_NewChallengeLiftsLimit ==
  [][\A u \in users :
       (/\ JustIssued(u)
        /\ RedisGet(redis, AttemptKey(u.id)) >= MaxOTPAttempts
        /\ VerifiesOtp(u)
        /\ SubmittedOtp = sentMail.otp)
       => VerifiedOtp]_vars

\* C40: no two Session rows hold the same refresh token, and the refresh
\* token returned by register, login or refreshTokens differs from the token
\* of every Session row there was before the call, also of one created for
\* the same user in the same clock second.
C40_RefreshTokensDistinct ==
  /\ [](\A s1, s2 \in sessions : s1.token = s2.token => s1 = s2)
  /\ [][(/\ result'.op \in {"register", "login", "refreshTokens"}
         /\ result'.out = "tokens")
        => \A s \in sessions : s.token # result'.tokens.refreshToken]_vars

====
